---- MODULE Spec2Model ----
(***************************************************************************)
(* Backlink metadata updater: rule matching (RuleEngine) and the value     *)
(* generation / merge engine (BacklinkProcessor).                          *)
(*                                                                         *)
(* Strings are sequences of one-character strings, so that prefix, suffix  *)
(* and glob matching and date parsing are computed on the characters.      *)
(* A JavaScript value is a record tagged by its type: t = "undef", "null", *)
(* "bool", "str", "obj" ({date, title, source}), "arr" (items: a sequence  *)
(* of values) or "hist" (a MetadataUpdate record of the history log).      *)
(*                                                                         *)
(* SpecFind studies findApplicableRules on rule sets, sources and targets; *)
(* SpecMerge studies applyRule (value generation, merge, history) on the   *)
(* metadata of one target; SpecValidate studies validateRule and           *)
(* validateRuleSet; SpecSchedule studies the debounce timers of            *)
(* scheduleProcessing and cancelAllProcessing.                             *)
(***************************************************************************)
EXTENDS Integers, Sequences, FiniteSets, TLC

VARIABLES
    rules,        \* the rule set handed to the engine (settings.rules)
    sourceFile,   \* the source document of the call under study
    targetFile,   \* the target document of the call under study
    applicable,   \* what findApplicableRules returned
    called,       \* TRUE once findApplicableRules has returned
    frontMatter,  \* the target's structured metadata: key -> value
    options,      \* the global options (settings.options)
    lastOp,       \* the last operation (what it was given and what it did)
    clock,        \* the time: advanced by every reading of the clock (new Date())
    processingQueue, \* BacklinkProcessor.processingQueue: path -> timer handle
    timers,       \* the host's armed timers: set by setTimeout, not fired, not cleared
    passes,       \* the timer callbacks that are awaiting their processFile pass
    timerCount,   \* how many timers setTimeout has handed out
    vault,        \* the documents of the vault: path -> what the metadata cache holds
    metadata,     \* the structured metadata of the link targets: path -> key -> value
    runs,         \* the processFile passes in flight, each at its position
    bulk,         \* the processAllFiles run: its position in the corpus
    trace,        \* what processing has done so far, in order
    fileContentCache \* BacklinkMetadataPlugin.fileContentCache: path -> {content, links}

schedulerVars == <<processingQueue, timers, passes, timerCount>>

processVars == <<vault, metadata, runs, bulk, trace, fileContentCache>>

vars == <<rules, sourceFile, targetFile, applicable, called, frontMatter, options,
          lastOp, clock, processingQueue, timers, passes, timerCount,
          vault, metadata, runs, bulk, trace, fileContentCache>>

-----------------------------------------------------------------------------
(* Bounds of the model *)

MaxRules == 3      \* longest rule set explored by the rule-matching specification
MaxItems == 2      \* longest sequence a metadata key (field or history) may grow to

-----------------------------------------------------------------------------
(* JavaScript values *)

Undef == [t |-> "undef"]
Str(s) == [t |-> "str", s |-> s]
Obj(d, ti, src) == [t |-> "obj", date |-> d, title |-> ti, source |-> src]
Arr(items) == [t |-> "arr", items |-> items]
Bool(b) == [t |-> "bool", b |-> b]
Null == [t |-> "null"]

\* JavaScript truthiness: undefined and "" are falsy, objects and arrays truthy
Truthy(v) ==
    CASE v.t \in {"undef", "null"} -> FALSE
      [] v.t = "str" -> v.s # <<>>
      [] v.t = "bool" -> v.b
      [] OTHER -> TRUE

-----------------------------------------------------------------------------
(* Strings *)

StartsWith(s, p) == Len(p) <= Len(s) /\ SubSeq(s, 1, Len(p)) = p
EndsWith(s, p) == Len(p) <= Len(s) /\ SubSeq(s, Len(s) - Len(p) + 1, Len(s)) = p
Includes(s, c) == \E i \in 1..Len(s) : s[i] = c

\* the path of the folder holding a file: the text before the last "/",
\* "/" for a file of the vault root
ParentPath(path) ==
    IF Includes(path, "/")
    THEN LET last == CHOOSE i \in 1..Len(path) :
                        /\ path[i] = "/"
                        /\ \A j \in (i+1)..Len(path) : path[j] # "/"
         IN SubSeq(path, 1, last - 1)
    ELSE <<"/">>

-----------------------------------------------------------------------------
(* Pattern Matcher *)

\* Does the regular expression built from pattern[ti..] match path[pi..] up to
\* the end of path? "/" and "." are escaped (literal), "*" became ".*", "?"
\* became ".", every other character stands for itself, "$" ends the pattern.
RECURSIVE MatchFrom(_, _, _, _)
MatchFrom(pattern, ti, path, pi) ==
    IF ti > Len(pattern)
    THEN pi > Len(path)
    ELSE CASE pattern[ti] = "*" ->
                \E k \in pi..(Len(path) + 1) : MatchFrom(pattern, ti + 1, path, k)
           [] pattern[ti] = "?" ->
                pi <= Len(path) /\ MatchFrom(pattern, ti + 1, path, pi + 1)
           [] OTHER ->
                /\ pi <= Len(path)
                /\ path[pi] = pattern[ti]
                /\ MatchFrom(pattern, ti + 1, path, pi + 1)

\* regex.test(path): no anchor at the start, so the match may begin anywhere
matchesGlobPattern(pattern, path) ==
    \E start \in 1..(Len(path) + 1) : MatchFrom(pattern, 1, path, start)

matchesSourcePattern(rule, file) ==
    LET pattern == rule.sourcePattern IN
    IF Includes(pattern, "*")
    THEN matchesGlobPattern(pattern, file.path)
    ELSE \/ pattern = file.path
         \/ (EndsWith(pattern, <<"/">>) /\ StartsWith(file.path, pattern))
         \/ ParentPath(file.path) = pattern

\* tag without its leading "#"
CleanTag(tag) == IF StartsWith(tag, <<"#">>) THEN Tail(tag) ELSE tag

fileHasTag(file, tag) ==
    LET cleanTag == CleanTag(tag)
        fmTags == IF file.fmTags.t = "arr" THEN file.fmTags.items ELSE <<file.fmTags>>
    IN  /\ file.hasCache
        /\ \/ /\ Truthy(file.fmTags)
              /\ \E i \in 1..Len(fmTags) : fmTags[i] = Str(cleanTag)
           \/ \E i \in 1..Len(file.inlineTags) :
                 \/ file.inlineTags[i] = <<"#">> \o cleanTag
                 \/ file.inlineTags[i] = cleanTag

\* faulty variant: the folder criterion consulted before the tag criterion
matchesTargetCriteria_folderFirst(rule, file) ==
    IF Truthy(rule.targetFolder)
    THEN matchesGlobPattern(rule.targetFolder.s, file.path)
    ELSE IF Truthy(rule.targetTag)
         THEN fileHasTag(file, rule.targetTag.s)
         ELSE TRUE

matchesTargetCriteria(rule, file) ==
    IF Truthy(rule.targetTag)
    THEN fileHasTag(file, rule.targetTag.s)
    ELSE IF Truthy(rule.targetFolder)
         THEN matchesGlobPattern(rule.targetFolder.s, file.path)
         ELSE TRUE

-----------------------------------------------------------------------------
(* Rule Engine *)

\* faulty variant: the comparator reversed (b.priority - a.priority)
RECURSIVE SortByPriority_descending(_)
SortByPriority_descending(s) ==
    IF s = <<>> THEN <<>>
    ELSE LET sorted == SortByPriority_descending(SubSeq(s, 1, Len(s) - 1))
             x == s[Len(s)]
             before == SelectSeq(sorted, LAMBDA r : x.priority - r.priority <= 0)
             after == SelectSeq(sorted, LAMBDA r : x.priority - r.priority > 0)
         IN before \o <<x>> \o after

\* Array.prototype.sort with the comparator a.priority - b.priority: a stable
\* sort, each element placed after every element that does not compare greater
RECURSIVE SortByPriority(_)
SortByPriority(s) ==
    IF s = <<>> THEN <<>>
    ELSE LET sorted == SortByPriority(SubSeq(s, 1, Len(s) - 1))
             x == s[Len(s)]
             before == SelectSeq(sorted, LAMBDA r : r.priority - x.priority <= 0)
             after == SelectSeq(sorted, LAMBDA r : r.priority - x.priority > 0)
         IN before \o <<x>> \o after

\* faulty variant: the applicable rules left in the order of the rule array
findApplicableRules_unsorted(source, target, rs) ==
    LET enabledRules == SelectSeq(rs, LAMBDA r : r.enabled)
        sourceMatch == SelectSeq(enabledRules, LAMBDA r : matchesSourcePattern(r, source))
    IN SelectSeq(sourceMatch, LAMBDA r : matchesTargetCriteria(r, target))

\* faulty variant: the enabled filter left out
findApplicableRules_noEnabledFilter(source, target, rs) ==
    LET sourceMatch == SelectSeq(rs, LAMBDA r : matchesSourcePattern(r, source))
        targetMatch == SelectSeq(sourceMatch, LAMBDA r : matchesTargetCriteria(r, target))
    IN SortByPriority(targetMatch)

findApplicableRules(source, target, rs) ==
    LET enabledRules == SelectSeq(rs, LAMBDA r : r.enabled)
        sourceMatch == SelectSeq(enabledRules, LAMBDA r : matchesSourcePattern(r, source))
        targetMatch == SelectSeq(sourceMatch, LAMBDA r : matchesTargetCriteria(r, target))
    IN SortByPriority(targetMatch)

-----------------------------------------------------------------------------
(* The documents and rules explored *)

\* a document: its path, what the metadata cache holds for it (frontmatter
\* tags, inline tags) and what the date extractor finds in it
File(path, hasCache, fmTags, inlineTags, date, title) ==
    [path |-> path, hasCache |-> hasCache, fmTags |-> fmTags,
     inlineTags |-> inlineTags, extractedDate |-> date, extractedTitle |-> title]

Date0310 == <<"2","0","2","4","-","0","3","-","1","0">>
Date0401 == <<"2","0","2","4","-","0","4","-","0","1">>
Date0501 == <<"2","0","2","4","-","0","5","-","0","1">>

\* metadata keys: two update fields and the history keys derived from them
LastWatched == <<"l","a","s","t","W","a","t","c","h","e","d">>
WatchHistory == <<"w","a","t","c","h","H","i","s","t","o","r","y">>
Refs == <<"r","e","f","s">>
RefsHistory == <<"r","e","f","s","H","i","s","t","o","r","y">>
Keys == {LastWatched, WatchHistory, Refs, RefsHistory}

\* DEFAULT_SETTINGS.options, as far as the engine reads them
DefaultOptions == [preserveHistory |-> TRUE, updateOnDelete |-> FALSE]

SourceFiles ==
    { File(<<"D","/","a">>, TRUE, Undef, <<>>, Str(Date0310), Str(<<"T">>)),
      File(<<"O","/","D","/","b">>, TRUE, Undef, <<>>, Str(Date0501), Undef) }

TargetFiles ==
    { File(<<"M","/","x">>, TRUE, Arr(<<Str(<<"m">>)>>), <<>>, Undef, Undef),
      File(<<"x">>, TRUE, Undef, << <<"#","m">> >>, Undef, Undef),
      File(<<"M","/","y">>, TRUE, Str(<<"#","m">>), <<>>, Undef, Undef),
      File(<<"N","/","z">>, FALSE, Undef, <<>>, Undef, Undef) }

SourcePatterns == { <<"D","/","*">>, <<"D">> }
TargetTags == { Undef, Str(<<"#","m">>) }
TargetFolders == { Undef, Str(<<"M","/","*">>) }

\* what a rule of the rule-matching specification may look like, its id aside
RuleShapes ==
    [sourcePattern : SourcePatterns, targetTag : TargetTags,
     targetFolder : TargetFolders,
     gate : { <<1, TRUE>>, <<2, TRUE>>, <<1, FALSE>> }]

MakeRule(i, shape) ==
    [id |-> i, name |-> i, sourcePattern |-> shape.sourcePattern,
     targetTag |-> shape.targetTag, targetFolder |-> shape.targetFolder,
     updateField |-> LastWatched, valueType |-> "date",
     priority |-> shape.gate[1], enabled |-> shape.gate[2],
     preserveHistory |-> Undef]

NoOp == [kind |-> "none"]

\* the documents whose edits are scheduled
SchedulePaths == { <<"D","/","a">>, <<"D","/","c">> }

\* no entry for the path in processingQueue
NoTimer == 0

\* no bulk run: processAllFiles has not been called
NoBulk == [status |-> "idle", files |-> <<>>, processed |-> 0, total |-> 0]

\* nothing is being processed: no pass in flight, no bulk run, no document
\* read by a handler yet
InitProcessor ==
    /\ vault = <<>>
    /\ metadata = <<>>
    /\ runs = {}
    /\ bulk = NoBulk
    /\ trace = <<>>
    /\ fileContentCache = <<>>

\* the processor as constructed: an empty processingQueue, no timer armed
InitScheduler ==
    /\ processingQueue = [path \in SchedulePaths |-> NoTimer]
    /\ timers = {}
    /\ passes = {}
    /\ timerCount = 0

-----------------------------------------------------------------------------
(* Dates: new Date(value).getTime() *)

NaN == -1

Digits == {"0", "1", "2", "3", "4", "5", "6", "7", "8", "9"}

DigitVal(c) ==
    CASE c = "0" -> 0 [] c = "1" -> 1 [] c = "2" -> 2 [] c = "3" -> 3 [] c = "4" -> 4
      [] c = "5" -> 5 [] c = "6" -> 6 [] c = "7" -> 7 [] c = "8" -> 8 [] c = "9" -> 9

\* the number written by the n digits of s that start at position i
RECURSIVE NumberAt(_, _, _)
NumberAt(s, i, n) ==
    IF n = 0 THEN 0 ELSE NumberAt(s, i, n - 1) * 10 + DigitVal(s[i + n - 1])

\* A string in the date form YYYY-MM-DD parses to its day (counted so that a
\* later calendar day is a larger number); every other string of the model
\* (the empty string, a link, free text) is not a date: NaN.
ParseDateString(s) ==
    IF /\ Len(s) = 10
       /\ \A i \in {1, 2, 3, 4, 6, 7, 9, 10} : s[i] \in Digits
       /\ s[5] = "-" /\ s[8] = "-"
       /\ NumberAt(s, 6, 2) \in 1..12
       /\ NumberAt(s, 9, 2) \in 1..31
    THEN (NumberAt(s, 1, 4) * 12 + (NumberAt(s, 6, 2) - 1)) * 31 + (NumberAt(s, 9, 2) - 1)
    ELSE NaN

ObjectObject == <<"[","o","b","j","e","c","t"," ","O","b","j","e","c","t","]">>

\* String(value) as the Date constructor takes it from a non-primitive: an
\* array is the join of its items with ",", any other object "[object Object]"
RECURSIVE StringOf(_)
StringOf(v) ==
    CASE v.t = "str" -> v.s
      [] v.t \in {"undef", "null"} -> <<>>
      [] v.t = "arr" ->
            IF v.items = <<>> THEN <<>>
            ELSE IF Len(v.items) = 1 THEN StringOf(v.items[1])
            ELSE StringOf(v.items[1]) \o <<",">> \o StringOf(Arr(Tail(v.items)))
      [] OTHER -> ObjectObject

\* new Date(v).getTime()
getTime(v) ==
    CASE v.t = "undef" -> NaN
      [] v.t = "null" -> 0
      [] OTHER -> ParseDateString(StringOf(v))

isValidDate(v) == getTime(v) # NaN

-----------------------------------------------------------------------------
(* Value Generator *)

Link(path) == Str(<<"[", "[">> \o path \o <<"]", "]">>)

\* x || undefined
OrUndefined(v) == IF Truthy(v) THEN v ELSE Undef

ProcessingContext(source, target, rule) ==
    [sourceFile |-> source.path, targetFile |-> target.path,
     extractedDate |-> OrUndefined(source.extractedDate),
     extractedTitle |-> OrUndefined(source.extractedTitle),
     rule |-> rule]

generateUpdateValue(context) ==
    CASE context.rule.valueType = "date" -> context.extractedDate
      [] context.rule.valueType = "date_and_title" ->
            IF Truthy(context.extractedDate) /\ Truthy(context.extractedTitle)
            THEN Obj(context.extractedDate, context.extractedTitle, Link(context.sourceFile))
            ELSE context.extractedDate
      [] context.rule.valueType \in {"append_link", "append_unique_link", "replace_link"} ->
            Link(context.sourceFile)
      [] OTHER -> Null

-----------------------------------------------------------------------------
(* Merge Engine *)

\* a === b: primitives by value; two objects or arrays are never the same
\* reference (the candidate is freshly built, the metadata freshly parsed)
StrictEquals(a, b) == a = b /\ a.t \in {"undef", "null", "str", "bool"}

\* array.includes(v)
ArrayIncludes(items, v) == \E i \in 1..Len(items) : StrictEquals(items[i], v)

\* faulty variant: the candidate always replaces the current value
mergeDate_alwaysNew(currentValue, newValue) == newValue

\* faulty variant: the candidate wins when it is as recent as the current value (>=)
mergeDate_notStrict(currentValue, newValue) ==
    IF Truthy(currentValue) /\ Truthy(newValue)
    THEN LET currentValid == isValidDate(currentValue)
             newValid == isValidDate(newValue)
         IN IF ~currentValid \/ ~newValid \/ getTime(newValue) >= getTime(currentValue)
            THEN IF newValid THEN newValue ELSE currentValue
            ELSE currentValue
    ELSE IF Truthy(newValue) /\ isValidDate(newValue)
         THEN newValue
         ELSE currentValue

\* faulty variant: when either side is no date the candidate is used
mergeDate_newWhenInvalid(currentValue, newValue) ==
    IF Truthy(currentValue) /\ Truthy(newValue)
    THEN IF \/ ~isValidDate(currentValue)
            \/ ~isValidDate(newValue)
            \/ getTime(newValue) > getTime(currentValue)
         THEN newValue
         ELSE currentValue
    ELSE IF Truthy(newValue) /\ isValidDate(newValue)
         THEN newValue
         ELSE currentValue

\* faulty variant: without a current value the candidate is used unchecked
mergeDate_uncheckedFirstValue(currentValue, newValue) ==
    IF Truthy(currentValue) /\ Truthy(newValue)
    THEN LET currentValid == isValidDate(currentValue)
             newValid == isValidDate(newValue)
         IN IF ~currentValid \/ ~newValid \/ getTime(newValue) > getTime(currentValue)
            THEN IF newValid THEN newValue ELSE currentValue
            ELSE currentValue
    ELSE IF Truthy(newValue)
         THEN newValue
         ELSE currentValue

\* faulty variant: a date once written is kept, whatever the candidate
mergeDate_firstWriterWins(currentValue, newValue) ==
    IF Truthy(currentValue) THEN currentValue
    ELSE IF Truthy(newValue) /\ isValidDate(newValue) THEN newValue
    ELSE currentValue

\* the date and date_and_title case of mergeValues
mergeDate(currentValue, newValue) ==
    IF Truthy(currentValue) /\ Truthy(newValue)
    THEN LET currentValid == isValidDate(currentValue)
             newValid == isValidDate(newValue)
         IN IF ~currentValid \/ ~newValid \/ getTime(newValue) > getTime(currentValue)
            THEN IF newValid THEN newValue
                 ELSE IF currentValid THEN currentValue
                 ELSE currentValue
            ELSE currentValue
    ELSE IF Truthy(newValue) /\ isValidDate(newValue)
         THEN newValue
         ELSE currentValue

\* faulty variant: a candidate already present is not appended again
mergeAppendLink_skipPresent(currentValue, newValue) ==
    IF currentValue.t = "undef" THEN Arr(<<newValue>>)
    ELSE IF currentValue.t = "arr"
         THEN IF ArrayIncludes(currentValue.items, newValue)
              THEN currentValue
              ELSE Arr(Append(currentValue.items, newValue))
    ELSE Arr(<<currentValue, newValue>>)

\* faulty variant: the candidate replaces what the field held
mergeAppendLink_overwrites(currentValue, newValue) == Arr(<<newValue>>)

\* the append_link case of mergeValues
mergeAppendLink(currentValue, newValue) ==
    IF currentValue.t = "undef" THEN Arr(<<newValue>>)
    ELSE IF currentValue.t = "arr" THEN Arr(Append(currentValue.items, newValue))
    ELSE Arr(<<currentValue, newValue>>)

\* faulty variant: the candidate appended without looking for it
mergeAppendUniqueLink_alwaysAppend(currentValue, newValue) ==
    IF currentValue.t = "undef" THEN Arr(<<newValue>>)
    ELSE IF currentValue.t = "arr" THEN Arr(Append(currentValue.items, newValue))
    ELSE Arr(<<currentValue, newValue>>)

\* faulty variant: a scalar current value not compared with the candidate
mergeAppendUniqueLink_scalarUnchecked(currentValue, newValue) ==
    IF currentValue.t = "undef" THEN Arr(<<newValue>>)
    ELSE IF currentValue.t = "arr"
         THEN IF ArrayIncludes(currentValue.items, newValue)
              THEN currentValue
              ELSE Arr(Append(currentValue.items, newValue))
    ELSE Arr(<<currentValue, newValue>>)

\* faulty variant: a sequence is not searched for the candidate
mergeAppendUniqueLink_sequenceUnchecked(currentValue, newValue) ==
    IF currentValue.t = "undef" THEN Arr(<<newValue>>)
    ELSE IF currentValue.t = "arr" THEN Arr(Append(currentValue.items, newValue))
    ELSE IF StrictEquals(currentValue, newValue)
         THEN Arr(<<currentValue>>)
         ELSE Arr(<<currentValue, newValue>>)

\* the append_unique_link case of mergeValues
mergeAppendUniqueLink(currentValue, newValue) ==
    IF currentValue.t = "undef" THEN Arr(<<newValue>>)
    ELSE IF currentValue.t = "arr"
         THEN IF ArrayIncludes(currentValue.items, newValue)
              THEN currentValue
              ELSE Arr(Append(currentValue.items, newValue))
    ELSE IF StrictEquals(currentValue, newValue)
         THEN Arr(<<currentValue>>)
         ELSE Arr(<<currentValue, newValue>>)

\* faulty variant: append_unique_link falls into the append_link case
mergeValues_uniqueAppends(currentValue, newValue, valueType) ==
    CASE valueType \in {"date", "date_and_title"} -> mergeDate(currentValue, newValue)
      [] valueType \in {"append_link", "append_unique_link"} ->
            mergeAppendLink(currentValue, newValue)
      [] OTHER -> newValue

mergeValues(currentValue, newValue, valueType) ==
    CASE valueType \in {"date", "date_and_title"} -> mergeDate(currentValue, newValue)
      [] valueType = "append_link" -> mergeAppendLink(currentValue, newValue)
      [] valueType = "append_unique_link" -> mergeAppendUniqueLink(currentValue, newValue)
      [] OTHER -> newValue

LastRead == <<"l","a","s","t","R","e","a","d">>
ReadHistory == <<"r","e","a","d","H","i","s","t","o","r","y">>

\* faulty variant: one history log for every field
historyFieldOf_oneLog(field) == WatchHistory

historyFieldOf(field) ==
    IF field = LastWatched THEN WatchHistory
    ELSE IF field = LastRead THEN ReadHistory
    ELSE field \o <<"H","i","s","t","o","r","y">>

\* a MetadataUpdate record of the history log
MetadataUpdate(field, value, timestamp, sourceContext) ==
    [t |-> "hist", field |-> field, value |-> value, timestamp |-> timestamp,
     sourceContext |-> sourceContext]

\* push on a history key that holds something truthy that is no array throws
addToHistoryThrows(fm, field) ==
    Truthy(fm[historyFieldOf(field)]) /\ fm[historyFieldOf(field)].t # "arr"

\* faulty variant: every field's history searched for the value before the push
addToHistory_dedupEveryField(fm, field, value, context, now) ==
    LET historyField == historyFieldOf(field)
        history == IF Truthy(fm[historyField]) THEN fm[historyField].items ELSE <<>>
        shortcut == field = LastWatched \/ field = LastRead
        historyEntry == IF shortcut THEN value
                        ELSE MetadataUpdate(field, value, now, context.sourceFile)
        held == IF shortcut THEN ArrayIncludes(history, value)
                ELSE \E i \in 1..Len(history) : history[i].value = value
    IN [fm EXCEPT ![historyField] =
            IF held THEN Arr(history) ELSE Arr(Append(history, historyEntry))]

\* addToHistory: the metadata block with the history entry added. now is the
\* reading of the clock.
addToHistory(fm, field, value, context, now) ==
    LET historyField == historyFieldOf(field)
        history == IF Truthy(fm[historyField]) THEN fm[historyField].items ELSE <<>>
        shortcut == field = LastWatched \/ field = LastRead
        historyEntry == IF shortcut THEN value
                        ELSE MetadataUpdate(field, value, now, context.sourceFile)
    IN [fm EXCEPT ![historyField] =
            IF shortcut /\ ArrayIncludes(history, value)
            THEN Arr(history)
            ELSE Arr(Append(history, historyEntry))]

\* faulty variant: the rule-level flag ignored
shouldPreserveHistory_globalOnly(rule, opts) == opts.preserveHistory

\* rule-level preserveHistory when it is defined, else the global option
shouldPreserveHistory(rule, opts) ==
    IF rule.preserveHistory.t # "undef"
    THEN Truthy(rule.preserveHistory)
    ELSE opts.preserveHistory

\* does this rule application write a history entry
historyWritten(value, context, opts) ==
    shouldPreserveHistory(context.rule, opts) /\ value.t \notin {"null", "undef"}

\* the mutator updateTargetFileMetadata hands to processFrontMatter: the
\* metadata block it leaves. An exception in it leaves the block as it was.
updateTargetFileMetadata(fm, field, value, context, opts, now) ==
    LET currentValue == fm[field]
        newValue == mergeValues(currentValue, value, context.rule.valueType)
        withHistory == IF historyWritten(value, context, opts)
                       THEN addToHistory(fm, field, value, context, now)
                       ELSE fm
    IN IF historyWritten(value, context, opts) /\ addToHistoryThrows(fm, field)
       THEN fm
       ELSE IF newValue.t # "undef"
            THEN [withHistory EXCEPT ![field] = newValue]
            ELSE withHistory

-----------------------------------------------------------------------------
(* Specification of rule matching: a rule set, a source and a target are    *)
(* given, findApplicableRules is called on them.                            *)

InitFind ==
    /\ \E n \in 0..MaxRules : \E shapes \in [1..n -> RuleShapes] :
          rules = [i \in 1..n |-> MakeRule(i, shapes[i])]
    /\ sourceFile \in SourceFiles
    /\ targetFile \in TargetFiles
    /\ applicable = <<>>
    /\ called = FALSE
    /\ frontMatter = [k \in Keys |-> Undef]
    /\ options = DefaultOptions
    /\ lastOp = NoOp
    /\ clock = 0
    /\ InitScheduler
    /\ InitProcessor

\* faulty variant: the array of the caller is sorted, then filtered
rulesAfterFind_sortedInPlace(rs) == SortByPriority(rs)

\* the array of the caller once findApplicableRules has returned: filter
\* builds a new array, and it is that array sort orders in place
rulesAfterFind(rs) == rs

FindApplicable ==
    /\ ~called
    /\ applicable' = findApplicableRules(sourceFile, targetFile, rules)
    /\ rules' = rulesAfterFind(rules)
    /\ called' = TRUE
    /\ UNCHANGED <<sourceFile, targetFile, frontMatter, options, lastOp, clock>>
    /\ UNCHANGED schedulerVars
    /\ UNCHANGED processVars

NextFind == FindApplicable

SpecFind == InitFind /\ [][NextFind]_vars

-----------------------------------------------------------------------------
(* Claims about findApplicableRules *)

\* position in the returned sequence of the rule with this id, 0 if not returned
PosInApplicable(id) ==
    IF \E i \in 1..Len(applicable) : applicable[i].id = id
    THEN CHOOSE i \in 1..Len(applicable) : applicable[i].id = id
    ELSE 0

\* the target criterion as the rule model states it: the tag when a tag is
\* set, else the folder when a folder is set, else every target
CriterionHolds(rule, target) ==
    \/ Truthy(rule.targetTag) /\ fileHasTag(target, rule.targetTag.s)
    \/ /\ ~Truthy(rule.targetTag)
       /\ Truthy(rule.targetFolder)
       /\ matchesGlobPattern(rule.targetFolder.s, target.path)
    \/ ~Truthy(rule.targetTag) /\ ~Truthy(rule.targetFolder)

\* C1: findApplicableRules never returns a rule whose enabled flag is false,
\* whatever its patterns and priority.
C1_DisabledNeverReturned ==
    called =>
        /\ \A i \in 1..Len(applicable) : applicable[i].enabled
        /\ \A j \in 1..Len(rules) : ~rules[j].enabled => PosInApplicable(rules[j].id) = 0

\* a disabled rule that matches source and target was left out while an
\* enabled rule was returned
C1_Witness ==
    /\ called
    /\ applicable # <<>>
    /\ \E j \in 1..Len(rules) :
          /\ ~rules[j].enabled
          /\ matchesSourcePattern(rules[j], sourceFile)
          /\ CriterionHolds(rules[j], targetFile)

\* C2: findApplicableRules returns exactly the enabled rules whose
\* sourcePattern matches the source and whose target criterion (targetTag when
\* set, else targetFolder when set, else every target) matches the target:
\* each such rule once, and no other rule.
C2_ExactlyTheMatchingRules ==
    called =>
        /\ \A j \in 1..Len(rules) :
              (PosInApplicable(rules[j].id) # 0) <=>
                 /\ rules[j].enabled
                 /\ matchesSourcePattern(rules[j], sourceFile)
                 /\ CriterionHolds(rules[j], targetFile)
        /\ \A i \in 1..Len(applicable) :
              /\ \E j \in 1..Len(rules) : applicable[i] = rules[j]
              /\ \A k \in 1..Len(applicable) : applicable[k].id = applicable[i].id => k = i

\* one rule was returned by its tag although its folder does not match, one
\* enabled rule was left out although its folder matches because its tag does
\* not, and the source pattern left one enabled rule out
C2_Witness ==
    /\ called
    /\ \E j \in 1..Len(rules) :
          /\ PosInApplicable(rules[j].id) # 0
          /\ Truthy(rules[j].targetTag) /\ Truthy(rules[j].targetFolder)
          /\ ~matchesGlobPattern(rules[j].targetFolder.s, targetFile.path)
    /\ \E j \in 1..Len(rules) :
          /\ rules[j].enabled
          /\ PosInApplicable(rules[j].id) = 0
          /\ ~matchesSourcePattern(rules[j], sourceFile)
    /\ \E j \in 1..Len(rules) :
          /\ PosInApplicable(rules[j].id) # 0
          /\ ~Truthy(rules[j].targetTag) /\ ~Truthy(rules[j].targetFolder)

\* C3: the returned sequence is ordered by ascending priority, and rules of
\* equal priority keep the relative order they had in the rule set.
C3_AscendingAndStable ==
    called =>
        \A i, j \in 1..Len(applicable) :
            i < j =>
               /\ applicable[i].priority <= applicable[j].priority
               /\ applicable[i].priority = applicable[j].priority
                    => applicable[i].id < applicable[j].id

\* three rules were returned: two of equal priority in their input order, and
\* a rule that came first in the rule set moved behind them
C3_Witness ==
    /\ called
    /\ Len(applicable) = 3
    /\ applicable[1].priority = applicable[2].priority
    /\ applicable[3].id = 1
    /\ applicable[3].priority > applicable[2].priority

-----------------------------------------------------------------------------
(* Specification of the merge engine: rules writing one field of one target *)
(* document are applied, in any order and from any source document, to the  *)
(* target's metadata.                                                       *)

PathA == <<"D","/","a">>

\* the source documents: dated with a title, dated later without a title,
\* undated, and one whose extracted date is no date
Documents ==
    SourceFiles \cup
    { File(<<"D","/","c">>, TRUE, Undef, <<>>, Undef, Str(<<"U">>)),
      File(<<"D","/","e">>, TRUE, Undef, <<>>, Str(<<"x">>), Undef) }

TheTarget == File(<<"M","/","x">>, TRUE, Arr(<<Str(<<"m">>)>>), <<>>, Undef, Undef)

ValueTypes ==
    <<"date", "date_and_title", "append_link", "append_unique_link", "replace_link", "custom">>

\* <<rule-level preserveHistory, global preserveHistory>>: the rule-level flag
\* unset with the global option on and off, and set against the global option
HistorySettings ==
    { <<Undef, TRUE>>, <<Undef, FALSE>>, <<Bool(TRUE), FALSE>>, <<Bool(FALSE), TRUE>> }

\* what the field may hold before the first rule application: nothing, an
\* empty string, a date, a one-element list of a date, a {date, title, source}
\* record, a list of one such record
InitialFieldValues ==
    { Undef, Str(<<>>), Str(Date0401), Arr(<<Str(Date0501)>>),
      Obj(Str(Date0401), Str(<<"T">>), Link(PathA)),
      Arr(<<Obj(Str(Date0310), Str(<<"T">>), Link(PathA))>>) }

\* the rule set: one rule per value type, all on the same field and with the
\* same rule-level history flag
MergeRules(field, flag) ==
    [i \in 1..Len(ValueTypes) |->
        [id |-> i, name |-> i, sourcePattern |-> <<"D","/","*">>,
         targetTag |-> Undef, targetFolder |-> Undef,
         updateField |-> field, valueType |-> ValueTypes[i],
         priority |-> 1, enabled |-> TRUE,
         preserveHistory |-> flag]]

\* every sequence held under a metadata key is within the bound
WithinBounds(fm) ==
    \A k \in Keys : fm[k].t = "arr" => Len(fm[k].items) <= MaxItems

InitMerge ==
    /\ \E field \in {LastWatched, Refs} :
          /\ \E h \in HistorySettings :
                /\ rules = MergeRules(field, h[1])
                /\ options = [DefaultOptions EXCEPT !.preserveHistory = h[2]]
          /\ \E v \in InitialFieldValues :
                frontMatter = [k \in Keys |-> IF k = field THEN v ELSE Undef]
    /\ sourceFile = File(PathA, TRUE, Undef, <<>>, Str(Date0310), Str(<<"T">>))
    /\ targetFile = TheTarget
    /\ applicable = <<>>
    /\ called = FALSE
    /\ lastOp = NoOp
    /\ clock = 0
    /\ InitScheduler
    /\ InitProcessor

\* applyRule(sourceFile, targetFile, rule, options), for a rule that
\* processFileLink found applicable to the pair
ApplyRule(source, rule) ==
    LET context == ProcessingContext(source, targetFile, rule)
        updateValue == generateUpdateValue(context)
        field == rule.updateField
        merged == updateTargetFileMetadata(frontMatter, field, updateValue, context,
                                           options, clock)
        readsClock == /\ updateValue # Null
                      /\ historyWritten(updateValue, context, options)
                      /\ field \notin {LastWatched, LastRead}
                      /\ ~addToHistoryThrows(frontMatter, field)
    IN /\ IF updateValue = Null
          THEN UNCHANGED <<frontMatter, clock>>
          ELSE /\ WithinBounds(merged)
               /\ frontMatter' = merged
               /\ clock' = IF readsClock THEN clock + 1 ELSE clock
       /\ sourceFile' = source
       /\ lastOp' = [kind |-> "applyRule", source |-> source.path, rule |-> rule,
                     current |-> frontMatter[field], candidate |-> updateValue,
                     history |-> frontMatter[historyFieldOf(field)],
                     invoked |-> (updateValue # Null)]
       /\ UNCHANGED <<rules, targetFile, applicable, called, options>>
       /\ UNCHANGED schedulerVars
       /\ UNCHANGED processVars

\* processFileLink: the rules applicable to the link source -> target are
\* applied; the specification lets any of them be the next one applied
NextMerge ==
    \E source \in Documents :
    \E applicableRules \in {findApplicableRules(source, targetFile, rules)} :
    \E i \in 1..Len(applicableRules) : ApplyRule(source, applicableRules[i])

SpecMerge == InitMerge /\ [][NextMerge]_vars

-----------------------------------------------------------------------------
(* Claims about the merge engine *)

\* the last step applied a rule of one of these value types and reached the
\* merge engine
Applied(types) ==
    /\ lastOp.kind = "applyRule"
    /\ lastOp.invoked
    /\ lastOp.rule.valueType \in types

DateTypes == {"date", "date_and_title"}

\* the field the last rule application was about, as it is now
FieldNow == frontMatter[lastOp.rule.updateField]

Later(a, b) == IF a >= b THEN a ELSE b

\* C4: date merge is monotonic. When the current value and the candidate are
\* both parseable dates the field's date after the merge is the later of the
\* two, and no date-rule application, whatever its candidate and source, makes
\* the date of the field decrease.
C4_DateMergeMonotonic ==
    Applied(DateTypes) =>
        /\ (isValidDate(lastOp.current) /\ isValidDate(lastOp.candidate))
              => getTime(FieldNow) = Later(getTime(lastOp.current), getTime(lastOp.candidate))
        /\ isValidDate(lastOp.current)
              => isValidDate(FieldNow) /\ getTime(FieldNow) >= getTime(lastOp.current)

\* an older date was offered to a field holding a later one, and was rejected
C4_Witness ==
    /\ Applied(DateTypes)
    /\ isValidDate(lastOp.current)
    /\ isValidDate(lastOp.candidate)
    /\ getTime(lastOp.candidate) < getTime(lastOp.current)
    /\ FieldNow = lastOp.current

\* C5: for date and date_and_title merges where both sides are parseable
\* dates, the candidate replaces the current value only if its date is
\* strictly later; for an equal or earlier candidate date the current value is
\* kept exactly as it was.
C5_ReplacedOnlyIfStrictlyLater ==
    (/\ Applied(DateTypes)
     /\ isValidDate(lastOp.current)
     /\ isValidDate(lastOp.candidate)) =>
        /\ FieldNow # lastOp.current
              => /\ FieldNow = lastOp.candidate
                 /\ getTime(lastOp.candidate) > getTime(lastOp.current)
        /\ getTime(lastOp.candidate) <= getTime(lastOp.current)
              => FieldNow = lastOp.current

\* a candidate of the same date as the current value, written differently,
\* was offered and the current value kept
C5_Witness ==
    /\ Applied(DateTypes)
    /\ isValidDate(lastOp.current)
    /\ getTime(lastOp.candidate) = getTime(lastOp.current)
    /\ lastOp.candidate # lastOp.current
    /\ FieldNow = lastOp.current

\* C6: for date and date_and_title merges with a current value present: if
\* exactly one of current and candidate fails to parse as a date the parseable
\* one becomes the field value, and if both fail to parse the current value is
\* kept unchanged.
C6_ParseableSideWins ==
    (Applied(DateTypes) /\ lastOp.current.t # "undef") =>
        /\ (isValidDate(lastOp.current) /\ ~isValidDate(lastOp.candidate))
              => FieldNow = lastOp.current
        /\ (~isValidDate(lastOp.current) /\ isValidDate(lastOp.candidate))
              => FieldNow = lastOp.candidate
        /\ (~isValidDate(lastOp.current) /\ ~isValidDate(lastOp.candidate))
              => FieldNow = lastOp.current

\* a field holding a date was offered a text that is no date, and kept its date
C6_Witness ==
    /\ Applied(DateTypes)
    /\ isValidDate(lastOp.current)
    /\ lastOp.candidate.t = "str"
    /\ ~isValidDate(lastOp.candidate)
    /\ FieldNow = lastOp.current

\* C7: for date and date_and_title merges when the target field has no
\* current value, the candidate is written if and only if it parses as a valid
\* date; an unparseable candidate leaves the field absent.
C7_FirstValueOnlyIfDate ==
    (Applied(DateTypes) /\ lastOp.current.t = "undef") =>
        /\ isValidDate(lastOp.candidate) => FieldNow = lastOp.candidate
        /\ ~isValidDate(lastOp.candidate) => FieldNow.t = "undef"

\* an absent field was offered a text that is no date and stayed absent
C7_Witness ==
    /\ Applied(DateTypes)
    /\ lastOp.current.t = "undef"
    /\ lastOp.candidate.t = "str"
    /\ ~isValidDate(lastOp.candidate)
    /\ FieldNow.t = "undef"

\* the date a value stands for as the claim reads it: the date of a
\* {date, title, source} record is the date it carries
DateOfRecord(v) == IF v.t = "obj" THEN getTime(v.date) ELSE getTime(v)

\* C8: for a date_and_title rule whose source yields both a date and a title,
\* processing a link to a target whose field is absent (or holds an older
\* date) stores the record {date, title, source link} in the field; when only
\* the date is available the bare date string is stored.
C8_RecordStored ==
    (/\ Applied({"date_and_title"})
     /\ isValidDate(lastOp.candidate) \/ lastOp.candidate.t = "obj"
     /\ \/ lastOp.current.t = "undef"
        \/ /\ isValidDate(lastOp.current)
           /\ getTime(lastOp.current) < DateOfRecord(lastOp.candidate)) =>
        FieldNow = lastOp.candidate

\* the part of C8 the code keeps: with only the date available, the bare date
\* string is stored in an absent field or over an older date
C8_BareDateStored ==
    (/\ Applied({"date_and_title"})
     /\ lastOp.candidate.t = "str"
     /\ isValidDate(lastOp.candidate)
     /\ \/ lastOp.current.t = "undef"
        \/ /\ isValidDate(lastOp.current)
           /\ getTime(lastOp.current) < getTime(lastOp.candidate)) =>
        FieldNow = lastOp.candidate

\* how many entries of the sequence are string-equal to v
RECURSIVE Count(_, _)
Count(items, v) ==
    IF items = <<>> THEN 0
    ELSE (IF StrictEquals(items[1], v) THEN 1 ELSE 0) + Count(Tail(items), v)

\* how many times a field value (absent, scalar or sequence) holds v
CountIn(value, v) ==
    CASE value.t = "undef" -> 0
      [] value.t = "arr" -> Count(value.items, v)
      [] OTHER -> IF StrictEquals(value, v) THEN 1 ELSE 0

\* no two entries string-equal, no two record entries with equal source
NoDuplicates(items) ==
    \A i, j \in 1..Len(items) :
        i < j =>
           /\ ~StrictEquals(items[i], items[j])
           /\ ~(/\ items[i].t = "obj" /\ items[j].t = "obj"
                /\ items[i].source = items[j].source)

NoDuplicatesIn(value) == value.t = "arr" => NoDuplicates(value.items)

UniqueTypes == {"append_unique_link"}

\* C9 as stated: applying append_unique_link again with the same candidate
\* changes nothing, and the resulting sequence holds the candidate once only,
\* whatever the value it started from.
C9_IdempotentNoDuplicate ==
    Applied(UniqueTypes) =>
        /\ mergeValues(FieldNow, lastOp.candidate, "append_unique_link") = FieldNow
        /\ FieldNow.t = "arr"
        /\ Count(FieldNow.items, lastOp.candidate) = 1

\* C9 amended: applying append_unique_link again with the same candidate
\* changes nothing; the resulting sequence holds the candidate, and holds it
\* once only when the value it started from did not hold it more than once.
C9_IdempotentAddsNoDuplicate ==
    Applied(UniqueTypes) =>
        /\ mergeValues(FieldNow, lastOp.candidate, "append_unique_link") = FieldNow
        /\ FieldNow.t = "arr"
        /\ Count(FieldNow.items, lastOp.candidate) >= 1
        /\ CountIn(lastOp.current, lastOp.candidate) <= 1
              => Count(FieldNow.items, lastOp.candidate) = 1

\* the candidate was appended to a sequence that did not hold it, and a
\* second application would leave the sequence as it is
C9_Witness ==
    /\ Applied(UniqueTypes)
    /\ lastOp.current.t = "arr"
    /\ Count(lastOp.current.items, lastOp.candidate) = 0
    /\ FieldNow = Arr(Append(lastOp.current.items, lastOp.candidate))
    /\ mergeValues(FieldNow, lastOp.candidate, "append_unique_link") = FieldNow

\* C10 as stated: after any append_unique_link application the field's
\* sequence holds no two string-equal entries and no two record entries with
\* equal source.
C10_NoDuplicatesAfterUnique ==
    Applied(UniqueTypes) => FieldNow.t = "arr" /\ NoDuplicates(FieldNow.items)

\* C10 amended: an append_unique_link application introduces no duplicate: if
\* the field held no two string-equal entries and no two record entries with
\* equal source before it (or was absent or a scalar), it holds none after it.
C10_UniqueAddsNoDuplicate ==
    (Applied(UniqueTypes) /\ NoDuplicatesIn(lastOp.current)) =>
        FieldNow.t = "arr" /\ NoDuplicates(FieldNow.items)

\* a scalar field equal to the candidate became a one-element sequence
C10_Witness ==
    /\ Applied(UniqueTypes)
    /\ lastOp.current.t = "str"
    /\ lastOp.current = lastOp.candidate
    /\ FieldNow = Arr(<<lastOp.candidate>>)

\* C11 as stated: when the candidate link already equals the scalar value of
\* the field, or already occurs in its sequence, an append_unique_link
\* application leaves the target field unchanged.
C11_SuppressedFieldUnchanged ==
    (Applied(UniqueTypes) /\ CountIn(lastOp.current, lastOp.candidate) >= 1) =>
        FieldNow = lastOp.current

\* C11 amended: when the candidate link already occurs in the field's
\* sequence an append_unique_link application leaves the field unchanged; when
\* it equals the field's scalar value nothing is appended, and the field
\* becomes the one-element sequence holding that value.
C11_SuppressedNothingAppended ==
    (Applied(UniqueTypes) /\ CountIn(lastOp.current, lastOp.candidate) >= 1) =>
        /\ lastOp.current.t = "arr" => FieldNow = lastOp.current
        /\ lastOp.current.t # "arr" => FieldNow = Arr(<<lastOp.current>>)

\* a sequence of two links holding the candidate was offered it again and is
\* as it was
C11_Witness ==
    /\ Applied(UniqueTypes)
    /\ lastOp.current.t = "arr"
    /\ Len(lastOp.current.items) = 2
    /\ Count(lastOp.current.items, lastOp.candidate) >= 1
    /\ FieldNow = lastOp.current

\* the entries a field value holds, in order: none when absent, the value
\* itself when it is a scalar
EntriesOf(value) ==
    CASE value.t = "undef" -> <<>>
      [] value.t = "arr" -> value.items
      [] OTHER -> <<value>>

\* C12: after an append_link application the field is a sequence: the entries
\* it held before (none if absent, the scalar itself if a scalar), in their
\* order, followed by the candidate as the last entry; the candidate is
\* appended also when it is already present.
C12_AppendLinkAppendsLast ==
    Applied({"append_link"}) =>
        /\ FieldNow.t = "arr"
        /\ Len(FieldNow.items) = Len(EntriesOf(lastOp.current)) + 1
        /\ SubSeq(FieldNow.items, 1, Len(FieldNow.items) - 1) = EntriesOf(lastOp.current)
        /\ FieldNow.items[Len(FieldNow.items)] = lastOp.candidate

\* a link that the sequence already held was appended to it once more
C12_Witness ==
    /\ Applied({"append_link"})
    /\ lastOp.current.t = "arr"
    /\ Count(lastOp.current.items, lastOp.candidate) = 1
    /\ Count(FieldNow.items, lastOp.candidate) = 2

\* the history key of the field the last rule application was about, as it is now
HistoryNow == frontMatter[historyFieldOf(lastOp.rule.updateField)]

\* history preservation as the rule model states it: the rule-level flag when
\* the rule carries one, otherwise the global option
HistoryActive ==
    IF lastOp.rule.preserveHistory = Undef
    THEN options.preserveHistory
    ELSE lastOp.rule.preserveHistory = Bool(TRUE)

\* the rule application produced a value
CandidatePresent == lastOp.candidate # Null /\ lastOp.candidate # Undef

\* the last rule application added one entry to the history
EntryWritten ==
    /\ HistoryNow.t = "arr"
    /\ Len(HistoryNow.items) = Len(EntriesOf(lastOp.history)) + 1
    /\ SubSeq(HistoryNow.items, 1, Len(HistoryNow.items) - 1) = EntriesOf(lastOp.history)

ShortcutField == lastOp.rule.updateField \in {LastWatched, LastRead}

ObservedDate(v) == IF v.t = "obj" THEN v.date ELSE v

\* no two entries of the sequence are the same
AllDistinct(items) == \A i, j \in 1..Len(items) : i < j => items[i] # items[j]

\* C14: with history active for the update field lastWatched (resp.
\* lastRead), after a date or date_and_title rule application that produced a
\* value the history is a sequence under watchHistory (resp. readHistory),
\* every entry of it is a bare string, the observed date is among them, and no
\* entry occurs twice.
C14_ShortcutHistoryBareAndDistinct ==
    (/\ Applied(DateTypes)
     /\ ShortcutField
     /\ HistoryActive
     /\ CandidatePresent) =>
        /\ HistoryNow.t = "arr"
        /\ \A i \in 1..Len(HistoryNow.items) : HistoryNow.items[i].t = "str"
        /\ \E i \in 1..Len(HistoryNow.items) :
              HistoryNow.items[i] = ObservedDate(lastOp.candidate)
        /\ AllDistinct(HistoryNow.items)

\* the part of C14 the code keeps: a date rule observing again a date that
\* the history of lastWatched holds leaves the history as it was
C14_RepeatedDateNotEnteredAgain ==
    (/\ Applied({"date"})
     /\ ShortcutField
     /\ HistoryActive
     /\ CountIn(lastOp.history, lastOp.candidate) >= 1) =>
        HistoryNow = lastOp.history

\* the record {field, value, timestamp, sourceContext} the last rule
\* application enters in the history of a field other than lastWatched and
\* lastRead: its timestamp is the reading of the clock the application took
RecordOfLastOp ==
    [t |-> "hist", field |-> lastOp.rule.updateField, value |-> lastOp.candidate,
     timestamp |-> clock - 1, sourceContext |-> lastOp.source]

C16_NoValueLeavesMetadata ==
    (lastOp.kind = "applyRule" /\ ~CandidatePresent) =>
        /\ FieldNow = lastOp.current
        /\ HistoryNow = lastOp.history
        /\ lastOp.rule.valueType = "custom" => ~lastOp.invoked

-----------------------------------------------------------------------------
(* Rule validation: validateRule and validateRuleSet *)

MaxSetSize == 2    \* longest rule set handed to validateRuleSet

Letters ==
    {"a","b","c","d","e","f","g","h","i","j","k","l","m","n","o","p","q","r","s","t",
     "u","v","w","x","y","z","A","B","C","D","E","F","G","H","I","J","K","L","M","N",
     "O","P","Q","R","S","T","U","V","W","X","Y","Z"}

\* /^[a-zA-Z_][a-zA-Z0-9_]*$/.test(field)
IsIdentifier(field) ==
    /\ field # <<>>
    /\ field[1] \in Letters \cup {"_"}
    /\ \A i \in 2..Len(field) : field[i] \in Letters \cup Digits \cup {"_"}

\* the nesting depth of groups after pattern[i..], entered at this depth; -1
\* once a ")" closes a group that was never opened
RECURSIVE GroupDepth(_, _, _)
GroupDepth(pattern, i, depth) ==
    IF depth < 0 THEN -1
    ELSE IF i > Len(pattern) THEN depth
    ELSE GroupDepth(pattern, i + 1,
                    CASE pattern[i] = "(" -> depth + 1
                      [] pattern[i] = ")" -> depth - 1
                      [] OTHER -> depth)

\* new RegExp(regexPattern) throws a SyntaxError: over the characters of the
\* model, for a group that is not closed or was never opened and for a
\* character class that is not closed. The escapes of "/" and "." and the
\* replacements of "*" and "?" cannot make the construction fail.
RegExpThrows(pattern) ==
    \/ GroupDepth(pattern, 1, 0) # 0
    \/ \E i \in 1..Len(pattern) :
          /\ pattern[i] = "["
          /\ \A j \in (i + 1)..Len(pattern) : pattern[j] # "]"

\* what a call returns to its caller: a result, or an exception
Returned(errors, warnings) ==
    [kind |-> "returned", isValid |-> errors = <<>>, errors |-> errors,
     warnings |-> warnings]
Thrown == [kind |-> "thrown"]

\* the messages, as far as the model tells them apart
IdRequired == "Rule ID is required"
NameRequired == "Rule name is required"
SourcePatternRequired == "Source pattern is required"
UpdateFieldRequired == "Update field is required"
NoTargetCriteria == "No target criteria specified - rule will apply to all linked files"
InvalidSourcePattern == "Invalid source pattern"
InvalidTargetFolder == "Invalid target folder pattern"
InvalidUpdateField == "Update field must be a valid identifier (letters, numbers, underscore)"
NegativePriority == "Priority must be non-negative"

\* one conditional push
PushIf(condition, message) == IF condition THEN <<message>> ELSE <<>>

\* faulty variant: the target folder pattern tried outside a try block
validateRule_folderUncaught(rule) ==
    IF Truthy(rule.targetFolder) /\ RegExpThrows(rule.targetFolder.s)
    THEN Thrown
    ELSE Returned(
            PushIf(rule.id = <<>>, IdRequired)
            \o PushIf(rule.name = <<>>, NameRequired)
            \o PushIf(rule.sourcePattern = <<>>, SourcePatternRequired)
            \o PushIf(rule.updateField = <<>>, UpdateFieldRequired)
            \o PushIf(rule.sourcePattern # <<>> /\ RegExpThrows(rule.sourcePattern),
                      InvalidSourcePattern)
            \o PushIf(rule.updateField # <<>> /\ ~IsIdentifier(rule.updateField),
                      InvalidUpdateField)
            \o PushIf(rule.priority < 0, NegativePriority),
            PushIf(~Truthy(rule.targetTag) /\ ~Truthy(rule.targetFolder), NoTargetCriteria))

\* validateRule: the errors and the warnings in the order they are pushed. A
\* missing id, name, sourcePattern or updateField is the empty string.
validateRule(rule) ==
    Returned(
        PushIf(rule.id = <<>>, IdRequired)
        \o PushIf(rule.name = <<>>, NameRequired)
        \o PushIf(rule.sourcePattern = <<>>, SourcePatternRequired)
        \o PushIf(rule.updateField = <<>>, UpdateFieldRequired)
        \o PushIf(rule.sourcePattern # <<>> /\ RegExpThrows(rule.sourcePattern),
                  InvalidSourcePattern)
        \o PushIf(Truthy(rule.targetFolder) /\ RegExpThrows(rule.targetFolder.s),
                  InvalidTargetFolder)
        \o PushIf(rule.updateField # <<>> /\ ~IsIdentifier(rule.updateField),
                  InvalidUpdateField)
        \o PushIf(rule.priority < 0, NegativePriority),
        PushIf(~Truthy(rule.targetTag) /\ ~Truthy(rule.targetFolder), NoTargetCriteria))

\* a !== b on two optional strings (undefined is equal to undefined only)
NotSame(a, b) == ~StrictEquals(a, b)

\* faulty variant: rules of different value types are not held to conflict
rulesConflict_valueTypeCompared(rule1, rule2) ==
    IF rule1.sourcePattern # rule2.sourcePattern THEN FALSE
    ELSE IF NotSame(rule1.targetTag, rule2.targetTag)
            \/ NotSame(rule1.targetFolder, rule2.targetFolder) THEN FALSE
    ELSE IF rule1.updateField # rule2.updateField THEN FALSE
    ELSE rule1.valueType = rule2.valueType

rulesConflict(rule1, rule2) ==
    IF rule1.sourcePattern # rule2.sourcePattern THEN FALSE
    ELSE IF NotSame(rule1.targetTag, rule2.targetTag)
            \/ NotSame(rule1.targetFolder, rule2.targetFolder) THEN FALSE
    ELSE IF rule1.updateField # rule2.updateField THEN FALSE
    ELSE TRUE

\* ids.indexOf(id): the first position holding id
IndexOf(ids, id) == CHOOSE i \in 1..Len(ids) : ids[i] = id /\ \A j \in 1..(i - 1) : ids[j] # id

\* ids.filter((id, index) => ids.indexOf(id) !== index), from position `from` on
RECURSIVE DuplicateIdsFrom(_, _)
DuplicateIdsFrom(ids, from) ==
    IF from > Len(ids) THEN <<>>
    ELSE PushIf(IndexOf(ids, ids[from]) # from, ids[from]) \o DuplicateIdsFrom(ids, from + 1)

\* the warnings of the two nested loops, for the pairs (i, j) from (i0, j0) on
RECURSIVE ConflictWarningsFrom(_, _, _)
ConflictWarningsFrom(rs, i, j) ==
    IF i > Len(rs) THEN <<>>
    ELSE IF j > Len(rs) THEN ConflictWarningsFrom(rs, i + 1, i + 2)
    ELSE PushIf(rulesConflict(rs[i], rs[j]),
                [message |-> "may conflict", rule1 |-> rs[i].name, rule2 |-> rs[j].name])
         \o ConflictWarningsFrom(rs, i, j + 1)

\* faulty variant: a rule set with warnings is reported invalid
validateRuleSet_warningsCounted(rs) ==
    LET ids == [i \in 1..Len(rs) |-> rs[i].id]
        duplicateIds == DuplicateIdsFrom(ids, 1)
        errors == PushIf(duplicateIds # <<>>,
                         [message |-> "Duplicate rule IDs found", ids |-> duplicateIds])
        warnings == ConflictWarningsFrom(rs, 1, 2)
    IN [kind |-> "returned", isValid |-> (errors = <<>> /\ warnings = <<>>),
        errors |-> errors, warnings |-> warnings]

validateRuleSet(rs) ==
    LET ids == [i \in 1..Len(rs) |-> rs[i].id]
        duplicateIds == DuplicateIdsFrom(ids, 1)
        errors == PushIf(duplicateIds # <<>>,
                         [message |-> "Duplicate rule IDs found", ids |-> duplicateIds])
        warnings == ConflictWarningsFrom(rs, 1, 2)
    IN Returned(errors, warnings)

\* the rules handed to validateRuleSet: two ids, so that ids may collide, two
\* or three values for each of the fields rulesConflict compares, and two
\* pairs <<value type, priority>> of the fields it does not compare
SetShapes ==
    [id : { <<"a">>, <<"b">> },
     sourcePattern : SourcePatterns,
     criteria : { <<Undef, Undef>>, <<Str(<<"#","m">>), Undef>>,
                  <<Undef, Str(<<"M","/","*">>)>> },
     updateField : {LastWatched, Refs},
     variant : { <<"date", 1>>, <<"append_link", 2>> }]

\* the name of the rule at a position of the rule set
NameAt(i) == <<"R", <<"1", "2", "3", "4", "5", "6", "7", "8", "9">>[i]>>

SetRule(i, shape) ==
    [id |-> shape.id, name |-> NameAt(i), sourcePattern |-> shape.sourcePattern,
     targetTag |-> shape.criteria[1], targetFolder |-> shape.criteria[2],
     updateField |-> shape.updateField, valueType |-> shape.variant[1],
     priority |-> shape.variant[2], enabled |-> TRUE, preserveHistory |-> Undef]

\* the rules handed to validateRule: every required field present or missing,
\* patterns well formed or not, update fields that are identifiers or not,
\* priorities negative, zero and positive
SingleRules ==
    { [id |-> id, name |-> name, sourcePattern |-> sourcePattern,
       targetTag |-> targetTag, targetFolder |-> targetFolder,
       updateField |-> updateField, valueType |-> "date", priority |-> priority,
       enabled |-> TRUE, preserveHistory |-> Undef] :
        id \in { <<>>, <<"a">> },
        name \in { <<>>, NameAt(1) },
        sourcePattern \in { <<>>, <<"D","/","*">>, <<"D","(">>, <<"D","[">> },
        targetTag \in TargetTags,
        targetFolder \in { Undef, Str(<<"M","/","*">>), Str(<<"M",")">>) },
        updateField \in { <<>>, Refs, <<"9","x">>, <<"a","-","b">>, <<"_","x","1">> },
        priority \in { -1, 0, 1 } }

InitValidate ==
    /\ \/ \E n \in 0..MaxSetSize : \E shapes \in [1..n -> SetShapes] :
             rules = [i \in 1..n |-> SetRule(i, shapes[i])]
       \/ \E rule \in SingleRules : rules = <<rule>>
    /\ sourceFile \in {File(PathA, TRUE, Undef, <<>>, Str(Date0310), Str(<<"T">>))}
    /\ targetFile = TheTarget
    /\ applicable = <<>>
    /\ called = FALSE
    /\ frontMatter = [k \in Keys |-> Undef]
    /\ options = DefaultOptions
    /\ lastOp = NoOp
    /\ clock = 0
    /\ InitScheduler
    /\ InitProcessor

\* the "validate rules" command on one rule of the settings
ValidateRule(i) ==
    /\ lastOp' = [kind |-> "validateRule", rule |-> rules[i],
                  result |-> validateRule(rules[i])]
    /\ UNCHANGED <<rules, sourceFile, targetFile, applicable, called, frontMatter,
                   options, clock>>
    /\ UNCHANGED schedulerVars
    /\ UNCHANGED processVars

\* the "validate rules" command on the rule set
ValidateRuleSet ==
    /\ lastOp' = [kind |-> "validateRuleSet", result |-> validateRuleSet(rules)]
    /\ UNCHANGED <<rules, sourceFile, targetFile, applicable, called, frontMatter,
                   options, clock>>
    /\ UNCHANGED schedulerVars
    /\ UNCHANGED processVars

NextValidate ==
    \/ \E i \in 1..Len(rules) : ValidateRule(i)
    \/ ValidateRuleSet

SpecValidate == InitValidate /\ [][NextValidate]_vars

-----------------------------------------------------------------------------
(* Claims about rule validation *)

\* the two rules agree on the four fields that identify what a rule writes
SameIdentity(rule1, rule2) ==
    /\ rule1.sourcePattern = rule2.sourcePattern
    /\ rule1.targetTag = rule2.targetTag
    /\ rule1.targetFolder = rule2.targetFolder
    /\ rule1.updateField = rule2.updateField

\* how many warnings name the rules at positions i and j, in this order
WarningsFor(i, j) ==
    Len(SelectSeq(lastOp.result.warnings,
                  LAMBDA w : w.rule1 = rules[i].name /\ w.rule2 = rules[j].name))

\* C17: validateRuleSet emits a conflict warning for a pair of distinct rules
\* if and only if the two rules have identical (sourcePattern, targetTag,
\* targetFolder, updateField), whatever their value types and priorities and
\* whichever of the two comes first in the set: one warning for each such
\* pair and no other warning.
C17_ConflictIffSameIdentity ==
    lastOp.kind = "validateRuleSet" =>
        /\ \A i, j \in 1..Len(rules) :
              i < j =>
                 /\ WarningsFor(j, i) = 0
                 /\ WarningsFor(i, j) = IF SameIdentity(rules[i], rules[j]) THEN 1 ELSE 0
        /\ Len(lastOp.result.warnings)
              = Cardinality({p \in (1..Len(rules)) \X (1..Len(rules)) :
                               p[1] < p[2] /\ SameIdentity(rules[p[1]], rules[p[2]])})

\* two rules identical in the four fields, of different value types and
\* priorities, the one of higher priority first, were reported as a conflict
C17_Witness ==
    /\ lastOp.kind = "validateRuleSet"
    /\ Len(rules) = 2
    /\ SameIdentity(rules[1], rules[2])
    /\ rules[1].valueType # rules[2].valueType
    /\ rules[1].priority > rules[2].priority
    /\ Len(lastOp.result.warnings) = 1

\* the ids that two rules of the set share
SharedIds ==
    {rules[i].id : i \in {k \in 1..Len(rules) :
                              \E j \in 1..Len(rules) : j # k /\ rules[j].id = rules[k].id}}

\* C18: validateRuleSet reports isValid = false exactly when two rules of the
\* set share an id, and then with one error that lists the colliding ids;
\* conflict warnings alone never make a rule set invalid.
C18_InvalidIffSharedId ==
    lastOp.kind = "validateRuleSet" =>
        /\ lastOp.result.isValid <=> SharedIds = {}
        /\ SharedIds = {} => lastOp.result.errors = <<>>
        /\ SharedIds # {} =>
              /\ Len(lastOp.result.errors) = 1
              /\ {lastOp.result.errors[1].ids[k] :
                      k \in 1..Len(lastOp.result.errors[1].ids)} = SharedIds

\* two rules that conflict in nothing share their id: the set is invalid, the
\* error lists the id, and there is no warning
C18_Witness ==
    /\ lastOp.kind = "validateRuleSet"
    /\ Len(rules) = 2
    /\ rules[1].id = rules[2].id
    /\ ~lastOp.result.isValid
    /\ lastOp.result.errors[1].ids = <<rules[1].id>>
    /\ lastOp.result.warnings = <<>>

\* the message is among the messages
Has(messages, message) == \E k \in 1..Len(messages) : messages[k] = message

\* a glob pattern from which no regular expression can be built
Malformed(pattern) == pattern # <<>> /\ RegExpThrows(pattern)

\* the defects validateRule is to report as errors
Defects(rule) ==
    { d \in { <<rule.id = <<>>, IdRequired>>,
              <<rule.name = <<>>, NameRequired>>,
              <<rule.sourcePattern = <<>>, SourcePatternRequired>>,
              <<rule.updateField = <<>>, UpdateFieldRequired>>,
              <<rule.updateField # <<>> /\ ~IsIdentifier(rule.updateField),
                InvalidUpdateField>>,
              <<rule.priority < 0, NegativePriority>>,
              <<Malformed(rule.sourcePattern), InvalidSourcePattern>>,
              <<Truthy(rule.targetFolder) /\ Malformed(StringOf(rule.targetFolder)),
                InvalidTargetFolder>> } : d[1] }

\* C19: validateRule returns a result and never throws, also for a malformed
\* pattern; the result is invalid and carries an error for each of: missing
\* id, missing name, missing sourcePattern, missing updateField, updateField
\* that is no identifier, negative priority, malformed glob pattern; a rule
\* with neither targetTag nor targetFolder gets a warning for it and, having
\* none of these defects, stays valid.
C19_ValidateRuleReportsDefects ==
    lastOp.kind = "validateRule" =>
        /\ lastOp.result.kind = "returned"
        /\ \A d \in Defects(lastOp.rule) :
              Has(lastOp.result.errors, d[2]) /\ ~lastOp.result.isValid
        /\ Defects(lastOp.rule) = {} => lastOp.result.isValid
        /\ (~Truthy(lastOp.rule.targetTag) /\ ~Truthy(lastOp.rule.targetFolder))
              => Has(lastOp.result.warnings, NoTargetCriteria)

\* a rule whose only defect is a target folder pattern from which no regular
\* expression can be built was returned invalid with that error
C19_Witness ==
    /\ lastOp.kind = "validateRule"
    /\ Truthy(lastOp.rule.targetFolder)
    /\ RegExpThrows(lastOp.rule.targetFolder.s)
    /\ lastOp.result.kind = "returned"
    /\ lastOp.result.errors = <<InvalidTargetFolder>>
    /\ ~lastOp.result.isValid

-----------------------------------------------------------------------------
(* Processing Scheduler: the debounce timers of scheduleProcessing, the     *)
(* passes their callbacks run, and cancelAllProcessing. The host runs one   *)
(* callback or event handler at a time; a pass is suspended while it awaits *)
(* the host's metadata accessor, and other handlers run meanwhile.          *)

MaxTimers == 4     \* how many times scheduleProcessing is called in a behaviour

Timer(id, path) == [id |-> id, path |-> path]

\* clearTimeout(handle): the timer of this handle is armed no more; no effect
\* for a handle whose timer has fired or was cleared
clearTimeout(armed, handle) == {t \in armed : t.id # handle}

\* scheduleProcessing(file, rules, options): what it does to the queue and
\* the timers
scheduleProcessing(path) ==
    LET cleared == IF processingQueue[path] # NoTimer
                   THEN clearTimeout(timers, processingQueue[path])
                   ELSE timers
        timeout == timerCount + 1
    IN /\ timers' = cleared \cup {Timer(timeout, path)}
       /\ processingQueue' = [processingQueue EXCEPT ![path] = timeout]
       /\ timerCount' = timeout

\* scheduleProcessing(file, rules, options), called by the modify handler
ScheduleProcessing(path) ==
    /\ timerCount < MaxTimers
    /\ scheduleProcessing(path)
    /\ lastOp' = [kind |-> "scheduleProcessing", path |-> path]
    /\ UNCHANGED <<rules, sourceFile, targetFile, applicable, called, frontMatter,
                   options, clock, passes>>
    /\ UNCHANGED processVars

\* the host fires an armed timer: its callback starts processFile and awaits it
TimerFires(timer) ==
    /\ timer \in timers
    /\ timers' = timers \ {timer}
    /\ passes' = passes \cup {timer}
    /\ lastOp' = [kind |-> "timerFires", path |-> timer.path, id |-> timer.id]
    /\ UNCHANGED <<rules, sourceFile, targetFile, applicable, called, frontMatter,
                   options, clock, processingQueue, timerCount>>
    /\ UNCHANGED processVars

\* what the callback does to the queue once the awaited pass is over:
\* processFile catches its own errors, so the await never rejects and
\* processingQueue.delete(filePath) follows a failed pass as well
queueAfterPass_keptOnFailure(queue, path, failed) ==
    IF failed THEN queue ELSE [queue EXCEPT ![path] = NoTimer]

queueAfterPass(queue, path, failed) == [queue EXCEPT ![path] = NoTimer]

\* the awaited processFile pass is over, its processing done or failed: the
\* callback goes on to processingQueue.delete(filePath)
PassCompletes(pass) ==
    /\ pass \in passes
    /\ passes' = passes \ {pass}
    /\ \E failed \in BOOLEAN :
          /\ processingQueue' = queueAfterPass(processingQueue, pass.path, failed)
          /\ lastOp' = [kind |-> "passCompletes", path |-> pass.path,
                        id |-> pass.id, failed |-> failed]
    /\ UNCHANGED <<rules, sourceFile, targetFile, applicable, called, frontMatter,
                   options, clock, timers, timerCount>>
    /\ UNCHANGED processVars

\* cancelAllProcessing(): every handle of processingQueue is cleared, then
\* the queue is emptied
CancelAllProcessing ==
    /\ timers' = {t \in timers : \A path \in SchedulePaths : processingQueue[path] # t.id}
    /\ processingQueue' = [path \in SchedulePaths |-> NoTimer]
    /\ lastOp' = [kind |-> "cancelAllProcessing"]
    /\ UNCHANGED <<rules, sourceFile, targetFile, applicable, called, frontMatter,
                   options, clock, passes, timerCount>>
    /\ UNCHANGED processVars

InitSchedule ==
    /\ rules = MergeRules(LastWatched, Undef)
    /\ sourceFile = File(PathA, TRUE, Undef, <<>>, Str(Date0310), Str(<<"T">>))
    /\ targetFile = TheTarget
    /\ applicable = <<>>
    /\ called = FALSE
    /\ frontMatter = [k \in Keys |-> Undef]
    /\ options = DefaultOptions
    /\ lastOp = NoOp
    /\ clock = 0
    /\ InitScheduler
    /\ InitProcessor

NextSchedule ==
    \/ \E path \in SchedulePaths : ScheduleProcessing(path)
    \/ \E timer \in timers : TimerFires(timer)
    \/ \E pass \in passes : PassCompletes(pass)
    \/ CancelAllProcessing

SpecSchedule == InitSchedule /\ [][NextSchedule]_vars

\* The host fires every timer that stays armed, and the metadata accessor a
\* pass awaits settles (resolves or rejects), so every in-flight pass ends.
FairSchedule ==
    /\ WF_vars(\E timer \in timers : TimerFires(timer))
    /\ WF_vars(\E pass \in passes : PassCompletes(pass))

SpecScheduleFair == SpecSchedule /\ FairSchedule

-----------------------------------------------------------------------------
(* Claims about the scheduler *)

\* the armed timers of a path
PendingFor(path) == {t \in timers : t.path = path}

\* C20: at every moment and for every document path at most one debounce
\* timer is pending (armed, not yet fired), under every interleaving of
\* scheduleProcessing calls, timer firings, completions of in-flight passes
\* and cancelAllProcessing.
C20_AtMostOnePendingTimer ==
    \A path \in SchedulePaths : Cardinality(PendingFor(path)) <= 1

\* C21: when a path is scheduled while an older timer of the path has not
\* fired, the older timer is cancelled and never fires: after
\* scheduleProcessing the new timer is the only one armed for the path, and
\* no timer starts a pass while a newer timer of its path is armed.
C21_OlderTimerCancelled ==
    /\ lastOp.kind = "scheduleProcessing"
          => PendingFor(lastOp.path)
                = {Timer(processingQueue[lastOp.path], lastOp.path)}
    /\ lastOp.kind = "timerFires"
          => \A newer \in PendingFor(lastOp.path) : newer.id < lastOp.id

\* C22: when cancelAllProcessing returns the pending map is empty and no
\* timer armed before the call is left to start a pass: none stays armed.
C22_CancelAllLeavesNoTimer ==
    lastOp.kind = "cancelAllProcessing"
        => /\ \A path \in SchedulePaths : processingQueue[path] = NoTimer
           /\ timers = {}

\* C34: when the pass started by a fired timer finishes, clearing the pending
\* entry for its path never removes the entry of a newer timer that was armed
\* for the same path while the pass was running: every armed, not-yet-fired
\* timer stays registered in the pending map.
C34_ArmedTimerStaysRegistered ==
    \A timer \in timers : processingQueue[timer.path] = timer.id

\* the path is Idle: no entry in the pending map, no timer armed, no pass in flight
Idle(path) ==
    /\ processingQueue[path] = NoTimer
    /\ PendingFor(path) = {}
    /\ \A pass \in passes : pass.path # path

\* C30: a scheduled path whose edits and cancellations have ceased comes back
\* to Idle: its timer fires, its pass runs to completion whether processing
\* succeeded or failed, and the path's pending entry is cleared.
C30_ScheduledPathReturnsToIdle ==
    \A path \in SchedulePaths : (processingQueue[path] # NoTimer) ~> Idle(path)

\* a failed pass of a scheduled path has completed and the path is Idle
C30_Witness ==
    /\ lastOp.kind = "passCompletes"
    /\ lastOp.failed
    /\ Idle(lastOp.path)

-----------------------------------------------------------------------------
(* Specification of the pattern matcher: a pattern is matched against a     *)
(* path, as the source pattern of a rule and as its target folder.          *)

DailyNotesGlob == <<"D","a","i","l","y"," ","N","o","t","e","s","/","*">>
DailyNotesFolder == <<"D","a","i","l","y"," ","N","o","t","e","s","/">>
DailyNotesName == <<"D","a","i","l","y"," ","N","o","t","e","s">>
MarkdownGlob == <<"*",".","m","d">>
OneCharGlob == <<"O","t","h","e","r","/","?",".","m","d">>
NotesGlob == <<"N","o","t","e","s","/","*">>
OtherGlob == <<"O","t","h","e","r","/","*">>
DailyNotePath == <<"D","a","i","l","y"," ","N","o","t","e","s","/","2","0","2","4","-","0","1","-","0","1",".","m","d">>
NestedNotePath == <<"O","t","h","e","r","/","D","a","i","l","y"," ","N","o","t","e","s","/","x",".","m","d">>
OtherPath == <<"O","t","h","e","r","/","x",".","m","d">>
RootPath == <<"x",".","m","d">>
DailyNotesPath == <<"D","a","i","l","y"," ","N","o","t","e","s">>
TextPath == <<"D","a","i","l","y"," ","N","o","t","e","s","/","x",".","t","x","t">>

GlobPatterns == {DailyNotesGlob, DailyNotesFolder, DailyNotesName, MarkdownGlob, OneCharGlob, NotesGlob, OtherGlob}
GlobPaths == {DailyNotePath, NestedNotePath, OtherPath, RootPath, DailyNotesPath, TextPath}

\* a rule of this source pattern whose only target criterion is the folder
\* of the same pattern
GlobRule(pattern) ==
    [id |-> 1, name |-> 1, sourcePattern |-> pattern, targetTag |-> Undef,
     targetFolder |-> Str(pattern), updateField |-> LastWatched,
     valueType |-> "date", priority |-> 1, enabled |-> TRUE,
     preserveHistory |-> Undef]

InitGlob ==
    /\ \E pattern \in GlobPatterns : rules = <<GlobRule(pattern)>>
    /\ \E path \in GlobPaths :
          /\ sourceFile = File(path, TRUE, Undef, <<>>, Undef, Undef)
          /\ targetFile = File(path, TRUE, Undef, <<>>, Undef, Undef)
    /\ applicable = <<>>
    /\ called = FALSE
    /\ frontMatter = [k \in Keys |-> Undef]
    /\ options = DefaultOptions
    /\ lastOp = NoOp
    /\ clock = 0
    /\ InitScheduler
    /\ InitProcessor

\* matchesSourcePattern(rule, sourceFile)
MatchesSourcePattern ==
    /\ lastOp' = [kind |-> "matchesSourcePattern",
                  pattern |-> rules[1].sourcePattern, path |-> sourceFile.path,
                  result |-> matchesSourcePattern(rules[1], sourceFile)]
    /\ UNCHANGED <<rules, sourceFile, targetFile, applicable, called, frontMatter,
                   options, clock>>
    /\ UNCHANGED schedulerVars
    /\ UNCHANGED processVars

\* matchesTargetCriteria(rule, targetFile) of a rule with a folder and no tag
MatchesTargetCriteria ==
    /\ lastOp' = [kind |-> "matchesTargetCriteria",
                  pattern |-> rules[1].targetFolder.s, path |-> targetFile.path,
                  result |-> matchesTargetCriteria(rules[1], targetFile)]
    /\ UNCHANGED <<rules, sourceFile, targetFile, applicable, called, frontMatter,
                   options, clock>>
    /\ UNCHANGED schedulerVars
    /\ UNCHANGED processVars

NextGlob ==
    \/ MatchesSourcePattern
    \/ MatchesTargetCriteria

SpecGlob == InitGlob /\ [][NextGlob]_vars

-----------------------------------------------------------------------------
(* Claims about the pattern matcher *)

C25_DailyNoteMatches ==
    (/\ lastOp.kind = "matchesSourcePattern"
     /\ lastOp.pattern = DailyNotesGlob
     /\ lastOp.path = DailyNotePath) => lastOp.result

-----------------------------------------------------------------------------
(* Cleanup: cleanupRemovedLinks and removeFromMetadata on the metadata of   *)
(* one target document.                                                     *)

MaxEntries == 2    \* how long the sequence under the field is at the start

PathB == <<"O","/","D","/","b">>

\* the test the filter of removeFromMetadata applies to an item of the
\* sequence: TRUE for the items it keeps
keepsItem(item, linkToRemove) ==
    IF item.t = "str"
    THEN item # linkToRemove
    ELSE IF item.t = "obj" /\ Truthy(item.source)
         THEN item.source # linkToRemove
         ELSE TRUE

\* typeof null is 'object': item.source of a null item is a TypeError, the
\* filter throws and the mutator with it
removeFromMetadataThrows(fm, field) ==
    /\ fm[field].t = "arr"
    /\ \E i \in 1..Len(fm[field].items) : fm[field].items[i].t = "null"

\* the mutator removeFromMetadata hands to processFrontMatter: the metadata
\* block it leaves. An exception in it leaves the block as it was.
removeFromMetadata(fm, field, sourceFilePath) ==
    LET currentValue == fm[field]
        linkToRemove == Link(sourceFilePath)
        kept(item) == keepsItem(item, linkToRemove)
    IN IF currentValue.t = "undef" THEN fm
       ELSE IF currentValue.t = "arr"
            THEN IF removeFromMetadataThrows(fm, field) THEN fm
                 ELSE IF SelectSeq(currentValue.items, kept) = <<>>
                      THEN [fm EXCEPT ![field] = Undef]
                      ELSE [fm EXCEPT ![field] =
                                Arr(SelectSeq(currentValue.items, kept))]
            ELSE IF StrictEquals(currentValue, linkToRemove)
                 THEN [fm EXCEPT ![field] = Undef]
                 ELSE fm

\* the loop of cleanupRemovedLinks over the applicable rules from the i-th
\* on: the metadata block left and whether a removeFromMetadata threw, which
\* ends the loop
RECURSIVE cleanupFrom(_, _, _, _)
cleanupFrom(fm, applicableRules, i, sourceFilePath) ==
    IF i > Len(applicableRules)
    THEN [frontMatter |-> fm, threw |-> FALSE]
    ELSE IF removeFromMetadataThrows(fm, applicableRules[i].updateField)
         THEN [frontMatter |-> fm, threw |-> TRUE]
         ELSE cleanupFrom(removeFromMetadata(fm, applicableRules[i].updateField,
                                             sourceFilePath),
                          applicableRules, i + 1, sourceFilePath)

\* what a sequence under the field may hold: links to two sources, records
\* naming them as their source, a history record, an empty item
CleanupEntries ==
    { Link(PathA), Link(PathB),
      Obj(Str(Date0310), Str(<<"T">>), Link(PathA)),
      Obj(Str(Date0501), Str(<<"T">>), Link(PathB)),
      MetadataUpdate(Refs, Link(PathA), 0, PathA),
      Null }

CleanupFieldValues ==
    { Undef, Link(PathA), Link(PathB), Str(Date0310),
      Obj(Str(Date0310), Str(<<"T">>), Link(PathA)) }
    \cup { Arr(items) : items \in UNION { [1..n -> CleanupEntries] : n \in 1..MaxEntries } }

\* two rules applicable to every link into the target: one on each field
CleanupRules ==
    [i \in 1..2 |->
        [id |-> i, name |-> i, sourcePattern |-> <<"D","/","*">>,
         targetTag |-> Undef, targetFolder |-> Undef,
         updateField |-> IF i = 1 THEN Refs ELSE LastWatched,
         valueType |-> IF i = 1 THEN "append_link" ELSE "replace_link",
         priority |-> i, enabled |-> TRUE, preserveHistory |-> Undef]]

InitCleanup ==
    /\ rules = CleanupRules
    /\ sourceFile = File(PathA, TRUE, Undef, <<>>, Str(Date0310), Str(<<"T">>))
    /\ targetFile = TheTarget
    /\ applicable = <<>>
    /\ called = FALSE
    /\ \E v \in CleanupFieldValues :
          frontMatter = [k \in Keys |-> IF k = Refs THEN v
                                        ELSE IF k = LastWatched THEN Link(PathB)
                                        ELSE Undef]
    /\ \E b \in BOOLEAN : options = [DefaultOptions EXCEPT !.updateOnDelete = b]
    /\ lastOp = NoOp
    /\ clock = 0
    /\ InitScheduler
    /\ InitProcessor

\* cleanupRemovedLinks(sourceFile, [targetFile.path], rules, options)
CleanupRemovedLinks(source) ==
    LET applicableRules == IF options.updateOnDelete
                           THEN findApplicableRules(source, targetFile, rules)
                           ELSE <<>>
        outcome == cleanupFrom(frontMatter, applicableRules, 1, source.path)
    IN /\ frontMatter' = outcome.frontMatter
       /\ sourceFile' = source
       /\ lastOp' = [kind |-> "cleanupRemovedLinks", source |-> source.path,
                     applicableRules |-> applicableRules, before |-> frontMatter,
                     threw |-> outcome.threw]
       /\ UNCHANGED <<rules, targetFile, applicable, called, options, clock>>
       /\ UNCHANGED schedulerVars
       /\ UNCHANGED processVars

NextCleanup == \E source \in SourceFiles : CleanupRemovedLinks(source)

SpecCleanup == InitCleanup /\ [][NextCleanup]_vars

-----------------------------------------------------------------------------
(* Claims about cleanup *)

\* the entry refers to the source: it is the link to it, or a record whose
\* source is the link to it
IsRefTo(entry, sourceFilePath) ==
    \/ entry = Link(sourceFilePath)
    \/ (entry.t = "obj" /\ entry.source = Link(sourceFilePath))

\* the field value C23 describes after the removal of the source from value
WithoutSource(value, sourceFilePath) ==
    LET other(entry) == ~IsRefTo(entry, sourceFilePath) IN
    IF value.t = "arr"
    THEN IF SelectSeq(value.items, other) = <<>>
         THEN Undef
         ELSE Arr(SelectSeq(value.items, other))
    ELSE IF value = Link(sourceFilePath) THEN Undef ELSE value

\* cleanupRemovedLinks has just called removeFromMetadata on the field refs
RemovedFromRefs ==
    /\ lastOp.kind = "cleanupRemovedLinks"
    /\ lastOp.applicableRules # <<>>

HasEmptyItem(value) ==
    value.t = "arr" /\ \E i \in 1..Len(value.items) : value.items[i].t = "null"

\* C23: removeFromMetadata for source S on a field removes from a sequence
\* every entry that is the link to S or a record whose source is the link to
\* S, keeps the other entries in their order and deletes the field when the
\* sequence becomes empty; a field that is no sequence is deleted if and only
\* if it is the link to S; an absent field stays absent.
C23_RemoveFromMetadata ==
    RemovedFromRefs
        => frontMatter[Refs] = WithoutSource(lastOp.before[Refs], lastOp.source)

\* what holds of C23: the same for every field without an empty (null) item
C23_RemoveFromMetadataNoEmptyItem ==
    (RemovedFromRefs /\ ~HasEmptyItem(lastOp.before[Refs]))
        => frontMatter[Refs] = WithoutSource(lastOp.before[Refs], lastOp.source)

\* a link and a record of the source are removed from between other entries
C23_NoEmptyItemWitness ==
    /\ RemovedFromRefs
    /\ lastOp.source = PathA
    /\ lastOp.before[Refs] = Arr(<<Link(PathB), Link(PathA)>>)
    /\ frontMatter[Refs] = Arr(<<Link(PathB)>>)

-----------------------------------------------------------------------------
(* Processing passes: processFile walks the outgoing links of a document,   *)
(* processFileLink finds the rules of a link and applyRule applies them one *)
(* at a time; processAllFiles runs the passes of the whole corpus. A pass   *)
(* is suspended at every call of the host's metadata accessor               *)
(* (processFrontMatter) and nowhere else.                                   *)

MaxFailures == 1   \* how many calls of the metadata accessor fail in a behaviour

\* a document of the vault: the file, its text (vault.read; a number stands
\* for each text the document has had) and what the metadata cache holds
\* for it: the links of the body and those of the frontmatter, each the
\* path it names
Document(file, content, links, frontmatterLinks) ==
    [file |-> file, content |-> content, links |-> links,
     frontmatterLinks |-> frontmatterLinks]

\* [...new Set(links)]: the first occurrence of every element, in order
RECURSIVE Unique(_)
Unique(links) ==
    IF links = <<>> THEN <<>>
    ELSE LET front == Unique(SubSeq(links, 1, Len(links) - 1))
             last == links[Len(links)]
         IN IF \E i \in 1..Len(front) : front[i] = last
            THEN front
            ELSE Append(front, last)

\* faulty variant: the resolved paths are returned as collected, a path once
\* for every link that resolves to it
extractOutgoingLinks_keepsDuplicates(documents, path) ==
    LET resolved(link) == link \in DOMAIN documents
    IN SelectSeq(documents[path].links, resolved)
          \o SelectSeq(documents[path].frontmatterLinks, resolved)

\* extractOutgoingLinks(file): the paths of the documents the links of the
\* file resolve to (getFirstLinkpathDest finds a file), without duplicates
extractOutgoingLinks(documents, path) ==
    LET resolved(link) == link \in DOMAIN documents
    IN IF path \notin DOMAIN documents
       THEN <<>>     \* getFileCache(file) holds nothing for a file that is gone
       ELSE Unique(SelectSeq(documents[path].links, resolved)
                   \o SelectSeq(documents[path].frontmatterLinks, resolved))

\* new RegExp in matchesGlobPattern throws for the source pattern of the rule
matchesSourcePatternThrows(rule) ==
    Includes(rule.sourcePattern, "*") /\ RegExpThrows(rule.sourcePattern)

\* new RegExp in matchesGlobPattern throws for the target folder of the rule
matchesTargetCriteriaThrows(rule) ==
    /\ ~Truthy(rule.targetTag)
    /\ Truthy(rule.targetFolder)
    /\ RegExpThrows(rule.targetFolder.s)

\* findApplicableRules throws: a filter callback does, for an enabled rule in
\* the source filter or for an enabled rule matching the source in the
\* target filter
findApplicableRulesThrows(source, target, rs) ==
    \E i \in 1..Len(rs) :
       /\ rs[i].enabled
       /\ \/ matchesSourcePatternThrows(rs[i])
          \/ (matchesSourcePattern(rs[i], source) /\ matchesTargetCriteriaThrows(rs[i]))

\* a processFile pass as it starts: the outgoing links still to process, the
\* link it is at and the applicable rules still to apply to it
NoTarget == <<>>

NewPass(id, path, documents) ==
    [id |-> id, source |-> path, links |-> extractOutgoingLinks(documents, path),
     target |-> NoTarget, queue |-> <<>>, failed |-> FALSE]

\* the pass has nothing left to do: processFile returns
Finished(pass) == pass.links = <<>> /\ pass.queue = <<>>

\* faulty variant: the error of a rule application is not caught by applyRule
\* and ends the pass in the catch of processFile
afterApplyRule_failureAborts(pass, failed) ==
    IF failed
    THEN [pass EXCEPT !.links = <<>>, !.queue = <<>>, !.failed = TRUE]
    ELSE [pass EXCEPT !.queue = Tail(@)]

\* the pass after applyRule returned: applyRule catches its own errors, the
\* loop of processFileLink goes on with the next rule
afterApplyRule(pass, failed) ==
    [pass EXCEPT !.queue = Tail(@), !.failed = @ \/ failed]

\* the pass after findApplicableRules threw in processFileLink: nothing
\* catches the error before the catch of processFile, which ends the pass
afterMatchingThrew(pass) ==
    [pass EXCEPT !.links = <<>>, !.queue = <<>>, !.failed = TRUE]

\* how many rule applications have failed so far
Failures ==
    Len(SelectSeq(trace, LAMBDA e : e.kind = "applyRule" /\ e.failed))

\* processFileLink up to its first applyRule: the pass takes its next link and
\* finds the rules applicable to it
ProcessFileLink(pass) ==
    /\ pass \in runs
    /\ pass.queue = <<>>
    /\ pass.links # <<>>
    /\ LET linkPath == Head(pass.links)
           source == vault[pass.source].file
       IN IF linkPath \notin DOMAIN vault
          THEN /\ runs' = (runs \ {pass}) \cup {[pass EXCEPT !.links = Tail(@)]}
               /\ UNCHANGED <<trace, rules>>
          ELSE IF findApplicableRulesThrows(source, vault[linkPath].file, rules)
          THEN /\ runs' = (runs \ {pass}) \cup {afterMatchingThrew(pass)}
               /\ trace' = Append(trace, [kind |-> "matchingThrew", id |-> pass.id,
                                          source |-> pass.source, target |-> linkPath])
               /\ UNCHANGED rules
          ELSE /\ runs' = (runs \ {pass}) \cup
                            {[pass EXCEPT !.links = Tail(@), !.target = linkPath,
                                          !.queue = findApplicableRules(
                                                       source, vault[linkPath].file, rules)]}
               /\ rules' = rulesAfterFind(rules)
               /\ UNCHANGED trace
    /\ UNCHANGED <<sourceFile, targetFile, applicable, called, frontMatter,
                   options, lastOp, clock, vault, metadata, bulk, fileContentCache>>
    /\ UNCHANGED schedulerVars

\* applyRule(sourceFile, targetFile, rule, options) for the next rule of the
\* link the pass is at. fails: the metadata accessor rejects (the target
\* cannot be read, parsed or written), which the catch of applyRule logs
ApplyNextRule(pass, fails) ==
    /\ pass \in runs
    /\ pass.queue # <<>>
    /\ fails => Failures < MaxFailures
    /\ LET rule == Head(pass.queue)
           field == rule.updateField
           fm == metadata[pass.target]
           context == ProcessingContext(vault[pass.source].file,
                                        vault[pass.target].file, rule)
           updateValue == generateUpdateValue(context)
           merged == updateTargetFileMetadata(fm, field, updateValue, context,
                                              options, clock)
           readsClock == /\ historyWritten(updateValue, context, options)
                         /\ field \notin {LastWatched, LastRead}
                         /\ ~addToHistoryThrows(fm, field)
           written == updateValue # Null /\ ~fails
       IN /\ metadata' = IF written THEN [metadata EXCEPT ![pass.target] = merged]
                                    ELSE metadata
          /\ clock' = IF written /\ readsClock THEN clock + 1 ELSE clock
          /\ runs' = (runs \ {pass}) \cup {afterApplyRule(pass, updateValue # Null /\ fails)}
          /\ trace' = Append(trace,
                [kind |-> "applyRule", id |-> pass.id, source |-> pass.source,
                 target |-> pass.target, rule |-> rule,
                 failed |-> (updateValue # Null /\ fails),
                 candidate |-> updateValue, read |-> fm[field],
                 wrote |-> IF written THEN merged[field] ELSE fm[field]])
    /\ UNCHANGED <<rules, sourceFile, targetFile, applicable, called, frontMatter,
                   options, lastOp, vault, bulk, fileContentCache>>
    /\ UNCHANGED schedulerVars

\* the pass processAllFiles is awaiting, if one is in flight
BulkPass == {pass \in runs : pass.id = 0}

\* processAllFiles(rules, options, onProgress) is called: getMarkdownFiles()
ProcessAllFiles(allFiles) ==
    /\ bulk.status = "idle"
    /\ bulk' = [status |-> IF allFiles = <<>> THEN "done" ELSE "running",
                files |-> allFiles, processed |-> 0, total |-> Len(allFiles)]
    /\ UNCHANGED <<rules, sourceFile, targetFile, applicable, called, frontMatter,
                   options, lastOp, clock, vault, metadata, runs, trace,
                   fileContentCache>>
    /\ UNCHANGED schedulerVars

\* the loop of processAllFiles calls processFile on its next file
BulkProcessFile ==
    /\ bulk.status = "running"
    /\ bulk.files # <<>>
    /\ BulkPass = {}
    /\ runs' = runs \cup {NewPass(0, Head(bulk.files), vault)}
    /\ trace' = Append(trace, [kind |-> "processFile", id |-> 0,
                               file |-> Head(bulk.files)])
    /\ UNCHANGED <<rules, sourceFile, targetFile, applicable, called, frontMatter,
                   options, lastOp, clock, vault, metadata, bulk, fileContentCache>>
    /\ UNCHANGED schedulerVars

\* faulty variant: a document whose pass failed is not counted
processedAfterPass_failedNotCounted(processed, failed) ==
    IF failed THEN processed ELSE processed + 1

\* processed++ once the awaited processFile has returned, which it does
\* whether or not its pass failed
processedAfterPass(processed, failed) == processed + 1

\* the awaited pass of processAllFiles has returned: processed++, then
\* onProgress(processed, allFiles.length)
BulkPassReturns(pass) ==
    /\ bulk.status = "running"
    /\ pass \in BulkPass
    /\ Finished(pass)
    /\ runs' = runs \ {pass}
    /\ bulk' = [bulk EXCEPT !.files = Tail(@),
                            !.processed = processedAfterPass(@, pass.failed),
                            !.status = IF Tail(bulk.files) = <<>> THEN "done"
                                       ELSE "running"]
    /\ trace' = Append(trace,
          [kind |-> "onProgress", file |-> pass.source, failed |-> pass.failed,
           current |-> processedAfterPass(bulk.processed, pass.failed),
           total |-> bulk.total])
    /\ UNCHANGED <<rules, sourceFile, targetFile, applicable, called, frontMatter,
                   options, lastOp, clock, vault, metadata, fileContentCache>>
    /\ UNCHANGED schedulerVars

-----------------------------------------------------------------------------
(* Specification of a bulk run: processAllFiles on a vault of two source    *)
(* documents and two link targets.                                          *)

PathX == <<"M","/","x">>
PathY == <<"M","/","y">>
Unresolved == <<"?">>     \* a link that names no document of the vault

\* getMarkdownFiles(): the documents of the vault, in the order of the host
Corpus == <<PathA, PathX, PathB, PathY>>

\* the links a source document may hold
LinksOfA == { <<PathX>>, <<PathX, PathY>>, <<Unresolved, PathY, PathX, PathY>> }
LinksOfB == { <<>>, <<PathX>> }

Vault(linksOfA, linksOfB) ==
    (PathA :> Document(File(PathA, TRUE, Undef, <<>>, Str(Date0310), Str(<<"T">>)),
                       0, linksOfA, <<>>))
    @@ (PathB :> Document(File(PathB, TRUE, Undef, <<>>, Str(Date0501), Undef),
                          0, <<>>, linksOfB))
    @@ (PathX :> Document(TheTarget, 0, <<>>, <<>>))
    @@ (PathY :> Document(File(PathY, TRUE, Str(<<"#","m">>), <<>>, Undef, Undef),
                          0, <<>>, <<>>))

MalformedGlob == <<"D","/","(","*">>
MalformedFolder == <<"M","/","(","*">>

ProcessRule(i, sourcePattern, targetFolder, updateField, valueType, priority, enabled) ==
    [id |-> i, name |-> i, sourcePattern |-> sourcePattern, targetTag |-> Undef,
     targetFolder |-> targetFolder, updateField |-> updateField,
     valueType |-> valueType, priority |-> priority, enabled |-> enabled,
     preserveHistory |-> Undef]

\* the rule sets of a run: two rules on the same field, the later in the
\* array of the lower priority; two rules on different fields; a rule whose
\* source pattern or target folder is malformed next to a well-formed rule;
\* a malformed rule that is disabled
ProcessRuleSets ==
    LET glob == <<"D","/","*">>
        folder == Str(<<"M","/","*">>)
    IN { << ProcessRule(1, glob, Undef, Refs, "append_link", 2, TRUE),
            ProcessRule(2, glob, Undef, Refs, "replace_link", 1, TRUE) >>,
         << ProcessRule(1, glob, Undef, Refs, "append_unique_link", 1, TRUE),
            ProcessRule(2, glob, folder, Refs, "append_link", 2, TRUE) >>,
         << ProcessRule(1, glob, folder, LastWatched, "date", 1, TRUE),
            ProcessRule(2, glob, Undef, Refs, "append_link", 1, TRUE) >>,
         << ProcessRule(1, MalformedGlob, Undef, Refs, "append_link", 1, TRUE),
            ProcessRule(2, glob, Undef, LastWatched, "date", 2, TRUE) >>,
         << ProcessRule(1, glob, Undef, Refs, "append_link", 1, TRUE),
            ProcessRule(2, glob, Str(MalformedFolder), LastWatched, "date", 2, TRUE) >>,
         << ProcessRule(1, MalformedGlob, Undef, Refs, "append_link", 1, FALSE),
            ProcessRule(2, glob, Undef, Refs, "append_link", 2, TRUE) >> }

InitProcess ==
    /\ rules \in ProcessRuleSets
    /\ sourceFile = File(PathA, TRUE, Undef, <<>>, Str(Date0310), Str(<<"T">>))
    /\ targetFile = TheTarget
    /\ applicable = <<>>
    /\ called = FALSE
    /\ frontMatter = [k \in Keys |-> Undef]
    /\ options = DefaultOptions
    /\ lastOp = NoOp
    /\ clock = 0
    /\ InitScheduler
    /\ \E linksOfA \in LinksOfA : \E linksOfB \in LinksOfB :
          vault = Vault(linksOfA, linksOfB)
    /\ metadata = [path \in {PathA, PathB, PathX, PathY} |-> [k \in Keys |-> Undef]]
    /\ runs = {}
    /\ bulk = NoBulk
    /\ trace = <<>>
    /\ fileContentCache = <<>>

NextProcess ==
    \/ ProcessAllFiles(Corpus)
    \/ BulkProcessFile
    \/ \E pass \in runs : ProcessFileLink(pass)
    \/ \E pass \in runs : \E fails \in BOOLEAN : ApplyNextRule(pass, fails)
    \/ \E pass \in runs : BulkPassReturns(pass)

SpecProcess == InitProcess /\ [][NextProcess]_vars

-----------------------------------------------------------------------------
(* Claims about processing passes *)

\* the positions of the trace that hold an event of this kind, in order
PositionsOf(kind) ==
    SelectSeq([i \in 1..Len(trace) |-> i], LAMBDA i : trace[i].kind = kind)

\* C24: processAllFiles processes the corpus strictly sequentially, one
\* document's pass finishing before the next begins, and calls the progress
\* callback exactly once after each document, with (k, N) for k = 1..N in
\* order, also for the documents whose pass failed.
C24_SequentialWithProgress ==
    LET begins == PositionsOf("processFile")
        calls == PositionsOf("onProgress")
        N == Len(Corpus)
    IN /\ Cardinality(BulkPass) <= 1
       /\ Len(begins) = Len(calls) + Cardinality(BulkPass)
       /\ bulk.status = "done" => Len(calls) = N
       /\ \A k \in 1..Len(begins) : trace[begins[k]].file = Corpus[k]
       /\ \A k \in 1..Len(calls) :
             /\ trace[calls[k]].current = k
             /\ trace[calls[k]].total = N
             /\ trace[calls[k]].file = Corpus[k]
             /\ begins[k] < calls[k]
             /\ k < Len(begins) => calls[k] < begins[k + 1]
       /\ \A i \in 1..Len(trace) :
             trace[i].kind \in {"applyRule", "matchingThrew"}
                => \E k \in 1..Len(begins) :
                      /\ trace[begins[k]].file = trace[i].source
                      /\ begins[k] < i
                      /\ k <= Len(calls) => i < calls[k]

\* the run is over; the pass of the first document failed and the progress
\* callback was called for it and for the documents after it
C24_Witness ==
    /\ bulk.status = "done"
    /\ LET calls == PositionsOf("onProgress")
       IN /\ Len(calls) = Len(Corpus)
          /\ trace[calls[1]].failed
          /\ trace[calls[1]].current = 1
          /\ trace[calls[Len(calls)]].current = Len(Corpus)

RECURSIVE Flatten(_)
Flatten(seqs) == IF seqs = <<>> THEN <<>> ELSE Head(seqs) \o Flatten(Tail(seqs))

\* the rule applications a run with the rules rs owes: for every document of
\* the corpus in order, every document its links resolve to, every rule
\* applicable to the pair, as <<source, target, rule id>>
OwedBy(rs) ==
    LET ofLink(source, target) ==
            LET found == findApplicableRules(vault[source].file, vault[target].file, rs)
            IN [i \in 1..Len(found) |-> <<source, target, found[i].id>>]
        ofFile(source) ==
            LET links == extractOutgoingLinks(vault, source)
            IN Flatten([j \in 1..Len(links) |-> ofLink(source, links[j])])
    IN Flatten([k \in 1..Len(Corpus) |-> ofFile(Corpus[k])])

OwedApplications == OwedBy(rules)

\* the rule applications made so far, as <<source, target, rule id>>
MadeApplications ==
    LET made == PositionsOf("applyRule")
    IN [k \in 1..Len(made) |->
          <<trace[made[k]].source, trace[made[k]].target, trace[made[k]].rule.id>>]

MatchingThrew == PositionsOf("matchingThrew") # <<>>

\* C26: a failure while applying one rule to one target is caught and does
\* not prevent the remaining applicable rules of that target, the remaining
\* link targets of the document or the remaining documents of the bulk run
\* from being processed: whatever application failed, a finished run has
\* made every application it owes, in order.
C26_FailureDoesNotStopProcessing ==
    (bulk.status = "done" /\ ~MatchingThrew) => MadeApplications = OwedApplications

\* the run is over; an application failed and was followed by one of another
\* rule to the same target, one to another target of the same document and
\* one of another document
C26_Witness ==
    /\ bulk.status = "done"
    /\ ~MatchingThrew
    /\ \E i \in 1..Len(trace) :
          /\ trace[i].kind = "applyRule"
          /\ trace[i].failed
          /\ \E j \in (i + 1)..Len(trace) :
                /\ trace[j].kind = "applyRule"
                /\ trace[j].source = trace[i].source
                /\ trace[j].target = trace[i].target
                /\ trace[j].rule.id # trace[i].rule.id
          /\ \E j \in (i + 1)..Len(trace) :
                /\ trace[j].kind = "applyRule"
                /\ trace[j].source = trace[i].source
                /\ trace[j].target # trace[i].target
          /\ \E j \in (i + 1)..Len(trace) :
                /\ trace[j].kind = "applyRule"
                /\ trace[j].source # trace[i].source

\* a pattern of the rule fails regex construction
IsMalformed(rule) ==
    \/ RegExpThrows(rule.sourcePattern)
    \/ (Truthy(rule.targetFolder) /\ RegExpThrows(rule.targetFolder.s))

\* C27: an enabled rule with a malformed pattern does not make matching
\* throw during processing and does not block the other rules: no call of
\* findApplicableRules throws, and a finished run has applied the well-formed
\* rules to every link target of every document.
C27_MalformedRuleDoesNotBlock ==
    /\ ~MatchingThrew
    /\ bulk.status = "done"
          => LET owed == OwedBy(SelectSeq(rules, LAMBDA rule : ~IsMalformed(rule)))
             IN \A k \in 1..Len(owed) :
                   \E m \in 1..Len(MadeApplications) : MadeApplications[m] = owed[k]

\* the second half of C27 alone: the well-formed rules are applied to every
\* link target
C27_WellFormedRulesApplied ==
    bulk.status = "done"
        => LET owed == OwedBy(SelectSeq(rules, LAMBDA rule : ~IsMalformed(rule)))
           IN \A k \in 1..Len(owed) :
                 \E m \in 1..Len(MadeApplications) : MadeApplications[m] = owed[k]

\* the position of the last rule application before position i that wrote
\* the same field of the same target, 0 if there is none
PreviousWrite(i) ==
    LET earlier == {j \in 1..(i - 1) :
                       /\ trace[j].kind = "applyRule"
                       /\ trace[j].target = trace[i].target
                       /\ trace[j].rule.updateField = trace[i].rule.updateField}
    IN IF earlier = {} THEN 0 ELSE CHOOSE j \in earlier : \A k \in earlier : k <= j

\* the field value the merge of mergeValues leaves for this application
MergeOnto(value, event) ==
    LET merged == mergeValues(value, event.candidate, event.rule.valueType)
    IN IF merged.t = "undef" THEN value ELSE merged

\* C29: for one (source, target) link the applicable rules are applied one at
\* a time in ascending priority order, each merge reading the target metadata
\* as the previous rule's write left it; the value a later rule leaves in a
\* field is its merge applied on top of the earlier rule's result.
C29_RulesAppliedInOrderOnPreviousResult ==
    \A i \in 1..Len(trace) :
       trace[i].kind = "applyRule"
          => /\ \A j \in 1..(i - 1) :
                   (/\ trace[j].kind = "applyRule"
                    /\ trace[j].source = trace[i].source
                    /\ trace[j].target = trace[i].target)
                      => trace[j].rule.priority <= trace[i].rule.priority
             /\ trace[i].read = IF PreviousWrite(i) = 0 THEN Undef
                                ELSE trace[PreviousWrite(i)].wrote
             /\ ~trace[i].failed => trace[i].wrote = MergeOnto(trace[i].read, trace[i])
             /\ (\A j \in (i + 1)..Len(trace) :
                    trace[j].kind = "applyRule" => PreviousWrite(j) # i)
                   => metadata[trace[i].target][trace[i].rule.updateField]
                         = trace[i].wrote

\* replace_link (priority 1) then append_link (priority 2) applied for the
\* link D/a -> M/x: the field holds the append on top of the replacement
C29_Witness ==
    \E i \in 1..Len(trace) :
       /\ i > 1
       /\ trace[i].kind = "applyRule"
       /\ trace[i - 1].kind = "applyRule"
       /\ trace[i].source = PathA /\ trace[i - 1].source = PathA
       /\ trace[i].target = PathX /\ trace[i - 1].target = PathX
       /\ trace[i - 1].rule.valueType = "replace_link"
       /\ trace[i].rule.valueType = "append_link"
       /\ trace[i - 1].rule.priority < trace[i].rule.priority
       /\ trace[i - 1].wrote = Link(PathA)
       /\ trace[i].read = Link(PathA)
       /\ trace[i].wrote = Arr(<<Link(PathA), Link(PathA)>>)
       /\ metadata[PathX][Refs] = Arr(<<Link(PathA), Link(PathA)>>)

-----------------------------------------------------------------------------
(* The modify handler of the plugin: a document is saved, handleFileModify  *)
(* compares it with fileContentCache and schedules the debounced pass,      *)
(* whose timer later fires and runs processFile.                            *)

MaxEdits == 2      \* how many modify events are handled in a behaviour

\* extractFileLinks(file) of the plugin: the documents the links of the body
\* resolve to, without duplicates
extractFileLinks(documents, path) ==
    LET resolved(link) == link \in DOMAIN documents
    IN Unique(SelectSeq(documents[path].links, resolved))

\* arraysEqual(a, b): the sorted copies are equal
arraysEqual(a, b) ==
    /\ Len(a) = Len(b)
    /\ \A i \in 1..Len(a) :
          Cardinality({j \in 1..Len(a) : a[j] = a[i]})
             = Cardinality({j \in 1..Len(b) : b[j] = a[i]})

\* fileContentCache.get(path): undefined without an entry
cachedEntry(cache, path) == IF path \in DOMAIN cache THEN cache[path] ELSE Undef

\* file.extension, which the host derives from the name: the documents of
\* the model are markdown files unless their record says otherwise
extension(file) ==
    IF "extension" \in DOMAIN file THEN file.extension ELSE <<"m","d">>

\* shouldProcessFile(file): a markdown file that some enabled rule matches as
\* a source
shouldProcessFile(file, rs) ==
    /\ extension(file) = <<"m","d">>
    /\ \E i \in 1..Len(rs) : rs[i].enabled /\ matchesSourcePattern(rs[i], file)

\* a.filter(link => !b.includes(link))
Without(a, b) == SelectSeq(a, LAMBDA link : \A j \in 1..Len(b) : b[j] # link)

\* faulty variant: a document saved with the text the cache holds is
\* scheduled again
modifyDecision_unchangedScheduled(cached, currentContent, currentLinks) ==
    IF cached = Undef THEN "schedule"
    ELSE IF cached.content = currentContent THEN "schedule"
    ELSE IF arraysEqual(cached.links, currentLinks) /\ currentLinks = <<>> THEN "skip"
    ELSE IF /\ ~arraysEqual(cached.links, currentLinks)
            /\ Without(currentLinks, cached.links) = <<>>
            /\ Without(cached.links, currentLinks) = <<>>
         THEN "cache"
         ELSE "schedule"

\* what handleFileModify does with a file that passed shouldProcessFile:
\* "skip" (return, cache untouched), "cache" (cache updated, nothing
\* scheduled) or "schedule" (cache updated, scheduleProcessing called)
modifyDecision(cached, currentContent, currentLinks) ==
    IF cached = Undef THEN "schedule"
    ELSE IF cached.content = currentContent THEN "skip"
    ELSE IF arraysEqual(cached.links, currentLinks) /\ currentLinks = <<>> THEN "skip"
    ELSE IF /\ ~arraysEqual(cached.links, currentLinks)
            /\ Without(currentLinks, cached.links) = <<>>
            /\ Without(cached.links, currentLinks) = <<>>
         THEN "cache"
         ELSE "schedule"

\* the document is saved as saved (its text changed or not) and the modify
\* event is handled by handleFileModify
HandleFileModify(path, saved) ==
    LET documents == [vault EXCEPT ![path] = saved]
        currentContent == saved.content
        currentLinks == extractFileLinks(documents, path)
        cached == cachedEntry(fileContentCache, path)
        decision == IF shouldProcessFile(saved.file, rules)
                    THEN modifyDecision(cached, currentContent, currentLinks)
                    ELSE "skip"
    IN /\ Len(SelectSeq(trace, LAMBDA e : e.kind = "handleFileModify")) < MaxEdits
       /\ vault' = documents
       /\ fileContentCache' =
             IF decision = "skip" THEN fileContentCache
             ELSE (path :> [content |-> currentContent, links |-> currentLinks])
                  @@ fileContentCache
       /\ IF decision = "schedule"
          THEN /\ timerCount < MaxTimers
               /\ scheduleProcessing(path)
               /\ UNCHANGED passes
          ELSE UNCHANGED schedulerVars
       /\ trace' = Append(trace,
             [kind |-> "handleFileModify", path |-> path, decision |-> decision,
              newLinks |-> IF cached = Undef THEN currentLinks
                           ELSE Without(currentLinks, cached.links),
              removedLinks |-> IF cached = Undef THEN <<>>
                               ELSE Without(cached.links, currentLinks)])
       /\ UNCHANGED <<rules, sourceFile, targetFile, applicable, called, frontMatter,
                      options, lastOp, clock, metadata, runs, bulk>>

\* the host fires an armed timer: its callback calls processFile, which
\* extracts the outgoing links, and awaits it
timerFiresPass(timer) ==
    /\ timer \in timers
    /\ timers' = timers \ {timer}
    /\ passes' = passes \cup {timer}
    /\ runs' = runs \cup {NewPass(timer.id, timer.path, vault)}

TimerFiresPass(timer) ==
    /\ timerFiresPass(timer)
    /\ trace' = Append(trace, [kind |-> "processFile", id |-> timer.id,
                               file |-> timer.path])
    /\ UNCHANGED <<rules, sourceFile, targetFile, applicable, called, frontMatter,
                   options, lastOp, clock, processingQueue, timerCount, vault,
                   metadata, bulk, fileContentCache>>

\* the processFile pass a timer callback awaits has returned: the callback
\* goes on to processingQueue.delete(filePath)
PassReturns(pass) ==
    /\ pass \in runs
    /\ Timer(pass.id, pass.source) \in passes
    /\ Finished(pass)
    /\ runs' = runs \ {pass}
    /\ passes' = passes \ {Timer(pass.id, pass.source)}
    /\ processingQueue' = queueAfterPass(processingQueue, pass.source, pass.failed)
    /\ UNCHANGED <<rules, sourceFile, targetFile, applicable, called, frontMatter,
                   options, lastOp, clock, timers, timerCount, vault, metadata,
                   bulk, trace, fileContentCache>>

-----------------------------------------------------------------------------
(* Specification of editing: two source documents are edited, their links   *)
(* to two targets added and removed, and the debounced passes run.          *)

PathC == <<"D","/","c">>

\* one rule applicable to every link from a document of D into the vault
EditRules == << ProcessRule(1, <<"D","/","*">>, Undef, Refs, "append_unique_link", 1, TRUE) >>

\* the body links a document may be saved with
EditedLinks(path) ==
    IF path = PathA THEN { <<>>, <<PathX>>, <<PathY, PathX>> }
    ELSE { <<PathX>> }

\* what a save may leave of the document: the same text, or another text
\* with some links
Saves(path) ==
    {vault[path]} \cup
    { [vault[path] EXCEPT !.content = @ + 1, !.links = links] :
         links \in EditedLinks(path) }

InitEdit ==
    /\ rules = EditRules
    /\ sourceFile = File(PathA, TRUE, Undef, <<>>, Str(Date0310), Str(<<"T">>))
    /\ targetFile = TheTarget
    /\ applicable = <<>>
    /\ called = FALSE
    /\ frontMatter = [k \in Keys |-> Undef]
    /\ \E b \in BOOLEAN : options = [DefaultOptions EXCEPT !.updateOnDelete = b]
    /\ lastOp = NoOp
    /\ clock = 0
    /\ InitScheduler
    /\ vault =
          (PathA :> Document(File(PathA, TRUE, Undef, <<>>, Str(Date0310), Str(<<"T">>)),
                             0, <<>>, <<>>))
          @@ (PathC :> Document(File(PathC, TRUE, Undef, <<>>, Str(Date0501), Undef),
                                0, <<>>, <<>>))
          @@ (PathX :> Document(TheTarget, 0, <<>>, <<>>))
          @@ (PathY :> Document(File(PathY, TRUE, Str(<<"#","m">>), <<>>, Undef, Undef),
                                0, <<>>, <<>>))
    /\ metadata = [path \in {PathX, PathY} |-> [k \in Keys |-> Undef]]
    /\ runs = {}
    /\ bulk = NoBulk
    /\ trace = <<>>
    /\ fileContentCache = <<>>

NextEdit ==
    \/ \E path \in SchedulePaths : \E saved \in Saves(path) : HandleFileModify(path, saved)
    \/ \E timer \in timers : TimerFiresPass(timer)
    \/ \E pass \in runs : ProcessFileLink(pass)
    \/ \E pass \in runs : \E fails \in BOOLEAN : ApplyNextRule(pass, fails)
    \/ \E pass \in runs : PassReturns(pass)

SpecEdit == InitEdit /\ [][NextEdit]_vars

-----------------------------------------------------------------------------
(* Claims about editing *)

\* the field value refers to the source: it is the link to it or a sequence
\* with an entry that is
RefersTo(value, sourceFilePath) ==
    \/ value = Link(sourceFilePath)
    \/ /\ value.t = "arr"
       /\ \E i \in 1..Len(value.items) : IsRefTo(value.items[i], sourceFilePath)

\* nothing is pending: no timer armed, no pass in flight
Quiet == timers = {} /\ passes = {} /\ runs = {}

\* the handling of the last modify event of the document is at position i
LastModify(i) ==
    /\ trace[i].kind = "handleFileModify"
    /\ \A j \in (i + 1)..Len(trace) :
          trace[j].kind = "handleFileModify" => trace[j].path # trace[i].path

\* C28: when an edit removes a link from S to T and updateOnDelete is
\* active, cleanup is performed: once the edit is handled and its processing
\* is over, the fields of the rules applicable to (S, T) hold no reference
\* to S in the metadata of T.
C28_CleanupOnLinkRemoval ==
    (options.updateOnDelete /\ Quiet)
       => \A i \in 1..Len(trace) :
             LastModify(i)
                => \A k \in 1..Len(trace[i].removedLinks) :
                      LET S == trace[i].path
                          T == trace[i].removedLinks[k]
                          found == findApplicableRules(vault[S].file, vault[T].file, rules)
                      IN \A r \in 1..Len(found) :
                            ~RefersTo(metadata[T][found[r].updateField], S)

\* the case of C28 as the code handles it: the link D/a -> M/x was written
\* to refs by a pass, then removed by an edit whose pass is over as well,
\* and refs of M/x still holds the link to D/a
C28_LinkRemovedReferenceKept ==
    /\ options.updateOnDelete
    /\ Quiet
    /\ Len(trace) = 5
    /\ trace[1].kind = "handleFileModify" /\ trace[1].newLinks = <<PathX>>
    /\ trace[2].kind = "processFile"
    /\ trace[3].kind = "applyRule" /\ ~trace[3].failed
    /\ trace[4].kind = "handleFileModify" /\ trace[4].removedLinks = <<PathX>>
    /\ trace[4].decision = "schedule"
    /\ trace[5].kind = "processFile"
    /\ extractOutgoingLinks(vault, PathA) = <<>>
    /\ metadata[PathX][Refs] = Arr(<<Link(PathA)>>)

\* the second half of C28: with updateOnDelete inactive cleanupRemovedLinks
\* changes no metadata
C28_InactiveCleanupChangesNothing ==
    (lastOp.kind = "cleanupRemovedLinks" /\ ~options.updateOnDelete)
        => frontMatter = lastOp.before

-----------------------------------------------------------------------------
(* Claims about the links of a pass *)

\* the applications of the rule to the target made for the source, among the
\* first k events of the trace
ApplicationsOf(source, target, rule, k) ==
    {i \in 1..k : /\ trace[i].kind = "applyRule"
                  /\ trace[i].source = source
                  /\ trace[i].target = target
                  /\ trace[i].rule.id = rule.id}

\* the pass of the source ended in the catch of processFile
PassAborted(source) ==
    \E i \in 1..Len(trace) :
       trace[i].kind = "matchingThrew" /\ trace[i].source = source

\* some link of the document, in its body or its frontmatter, names the path
LinksTo(source, path) ==
    LET raw == vault[source].links \o vault[source].frontmatterLinks
    IN \E i \in 1..Len(raw) : raw[i] = path

\* C32: within one processFile pass each distinct resolved target document is
\* processed at most once, however many links of the source, in body or
\* frontmatter, resolve to it, and links that resolve to no document are
\* skipped without affecting the others: once the pass of a document has
\* returned, every rule applicable to the document and a document it links
\* to has been applied to that target exactly once, and no rule has been
\* applied to any other document.
C32_TargetProcessedOnce ==
    \A k \in 1..Len(trace) :
       (trace[k].kind = "onProgress" /\ ~PassAborted(trace[k].file))
          => LET source == trace[k].file
             IN \A target \in DOMAIN vault : \A r \in 1..Len(rules) :
                   LET found == findApplicableRules(vault[source].file,
                                                    vault[target].file, rules)
                       owed == /\ LinksTo(source, target)
                               /\ \E f \in 1..Len(found) : found[f].id = rules[r].id
                   IN Cardinality(ApplicationsOf(source, target, rules[r], k))
                         = IF owed THEN 1 ELSE 0

\* the pass of D/a has returned: two of its links resolved to M/y, one to M/x
\* and one to no document, and a rule was applied once to M/y and once to M/x
C32_Witness ==
    /\ vault[PathA].links = <<Unresolved, PathY, PathX, PathY>>
    /\ \E k \in 1..Len(trace) :
          /\ trace[k].kind = "onProgress"
          /\ trace[k].file = PathA
          /\ \E r \in 1..Len(rules) :
                /\ Cardinality(ApplicationsOf(PathA, PathY, rules[r], k)) = 1
                /\ Cardinality(ApplicationsOf(PathA, PathX, rules[r], k)) = 1

\* the key the history of an update field is kept under
HistoryKeyOf(field) ==
    IF field = LastWatched THEN WatchHistory
    ELSE IF field = Refs THEN RefsHistory
    ELSE field \o <<"H","i","s","t","o","r","y">>

\* the pass is applying a rule for which the key of the document may change:
\* the document is the link target the pass is at, a document a link of the
\* source resolves to, the rule is applicable to the pair and the key is its
\* update field or the history key of that field
MayWrite(pass, path, key) ==
    /\ pass.queue # <<>>
    /\ pass.target = path
    /\ LinksTo(pass.source, path)
    /\ LET rule == Head(pass.queue)
       IN /\ rule.enabled
          /\ matchesSourcePattern(rule, vault[pass.source].file)
          /\ matchesTargetCriteria(rule, vault[path].file)
          /\ key \in {rule.updateField, HistoryKeyOf(rule.updateField)}

\* C38: a processing pass of source S modifies only, in documents that are
\* resolved link targets of S, the updateField of rules applicable to that
\* (S, target) pair and that field's history key; every other metadata key
\* of those targets and the metadata of every other document are left
\* unchanged.
C38_PassWritesOnlyItsFields ==
    [][\A path \in DOMAIN metadata : \A key \in Keys :
          metadata'[path][key] # metadata[path][key]
             => \E pass \in runs : MayWrite(pass, path, key)]_vars

\* a pass of D/a has written refs and its history key in M/x, and nothing
\* else in any document
C38_Witness ==
    /\ metadata[PathX][Refs] = Link(PathA)
    /\ metadata[PathX][RefsHistory] # Undef
    /\ metadata[PathX][LastWatched] = Undef
    /\ metadata[PathX][WatchHistory] = Undef
    /\ \A path \in {PathA, PathB, PathY} : \A key \in Keys :
          metadata[path][key] = Undef

-----------------------------------------------------------------------------
(* Claims about the rule array of the caller *)

-----------------------------------------------------------------------------
(* The command "process current file": processFile is called on the active  *)
(* document at once, without a timer, and awaited.                          *)

MaxRuns == 2       \* how many times the command is run in a behaviour

\* the passes the command has started so far
CommandRuns == Len(SelectSeq(trace, LAMBDA e : e.kind = "processCurrentFile"))

\* the callback of the command calls processFile(activeFile, rules, options)
ProcessCurrentFile(path) ==
    /\ CommandRuns < MaxRuns
    /\ runs' = runs \cup {NewPass(-(CommandRuns + 1), path, vault)}
    /\ trace' = Append(trace, [kind |-> "processCurrentFile",
                               id |-> -(CommandRuns + 1), file |-> path])
    /\ UNCHANGED <<rules, sourceFile, targetFile, applicable, called, frontMatter,
                   options, lastOp, clock, vault, metadata, bulk, fileContentCache>>
    /\ UNCHANGED schedulerVars

\* the processFile the command awaits has returned: the notice is shown. The
\* event keeps the metadata of the vault as the pass left it.
ProcessCurrentFileReturns(pass) ==
    /\ pass \in runs
    /\ pass.id < 0
    /\ Finished(pass)
    /\ runs' = runs \ {pass}
    /\ trace' = Append(trace, [kind |-> "processed", id |-> pass.id,
                               file |-> pass.source, metadata |-> metadata])
    /\ UNCHANGED <<rules, sourceFile, targetFile, applicable, called, frontMatter,
                   options, lastOp, clock, vault, metadata, bulk, fileContentCache>>
    /\ UNCHANGED schedulerVars

-----------------------------------------------------------------------------
(* Specification of repeated processing: the command is run again and again *)
(* on one unchanged document that links to one target, each run awaited     *)
(* before the next, with the history inactive.                              *)

\* the field lastWatched or refs of the target as a run may find it: absent,
\* a date, the link to the source as a scalar, a list with another link
RerunFieldValues ==
    { Undef, Str(Date0401), Link(PathA), Arr(<<Link(PathB)>>) }

\* the rules of a run: one rule of each value type that is meant to settle,
\* and two rules of different types on one field, in either priority order
RerunRuleSets ==
    LET glob == <<"D","/","*">>
    IN { << ProcessRule(1, glob, Undef, LastWatched, "date", 1, TRUE) >>,
         << ProcessRule(1, glob, Undef, LastWatched, "date_and_title", 1, TRUE) >>,
         << ProcessRule(1, glob, Undef, Refs, "append_unique_link", 1, TRUE) >>,
         << ProcessRule(1, glob, Undef, Refs, "replace_link", 1, TRUE) >>,
         << ProcessRule(1, glob, Undef, Refs, "append_unique_link", 1, TRUE),
            ProcessRule(2, glob, Undef, Refs, "replace_link", 2, TRUE) >>,
         << ProcessRule(1, glob, Undef, Refs, "date", 2, TRUE),
            ProcessRule(2, glob, Undef, Refs, "replace_link", 1, TRUE) >> }

\* the source document: dated with a title, dated without one, with an
\* extracted date that is no date, or undated
RerunSources ==
    { File(PathA, TRUE, Undef, <<>>, Str(Date0310), Str(<<"T">>)),
      File(PathA, TRUE, Undef, <<>>, Str(Date0501), Undef),
      File(PathA, TRUE, Undef, <<>>, Str(<<"x">>), Undef),
      File(PathA, TRUE, Undef, <<>>, Undef, Str(<<"U">>)) }

InitRerun ==
    /\ rules \in RerunRuleSets
    /\ sourceFile \in RerunSources
    /\ targetFile = TheTarget
    /\ applicable = <<>>
    /\ called = FALSE
    /\ frontMatter = [k \in Keys |-> Undef]
    /\ options = [DefaultOptions EXCEPT !.preserveHistory = FALSE]
    /\ lastOp = NoOp
    /\ clock = 0
    /\ InitScheduler
    /\ vault = (PathA :> Document(sourceFile, 0, <<PathX>>, <<>>))
               @@ (PathX :> Document(TheTarget, 0, <<>>, <<>>))
    /\ \E value \in RerunFieldValues :
          metadata = [path \in {PathA, PathX} |->
                        [k \in Keys |-> IF path = PathX /\ k \in {LastWatched, Refs}
                                        THEN value ELSE Undef]]
    /\ runs = {}
    /\ bulk = NoBulk
    /\ trace = <<>>
    /\ fileContentCache = <<>>

NextRerun ==
    \/ (runs = {} /\ ProcessCurrentFile(PathA))
    \/ \E pass \in runs : ProcessFileLink(pass)
    \/ \E pass \in runs : \E fails \in BOOLEAN : ApplyNextRule(pass, fails)
    \/ \E pass \in runs : ProcessCurrentFileReturns(pass)

SpecRerun == InitRerun /\ [][NextRerun]_vars

-----------------------------------------------------------------------------
(* Claims about repeated processing *)

\* no rule application among the first k events of the trace has failed
NoFailureBefore(k) ==
    \A i \in 1..k : trace[i].kind = "applyRule" => ~trace[i].failed

\* C36: re-running processFile on an unchanged source document (same links,
\* same extracted date and title, same rules, history inactive) leaves every
\* target field written by date, date_and_title, append_unique_link and
\* replace_link rules identical to its value after the first run: a later
\* run whose applications all succeeded, as those of the runs before it,
\* returns with the metadata the run before it returned with.
C36_RerunChangesNothing ==
    \A i \in 1..Len(trace) : \A j \in (i + 1)..Len(trace) :
       (/\ trace[i].kind = "processed"
        /\ trace[j].kind = "processed"
        /\ NoFailureBefore(j))
          => trace[j].metadata = trace[i].metadata

\* two runs have returned; the first turned the scalar link held by refs into
\* a list, the second applied the same rule again and left the list as it was
C36_Witness ==
    /\ Len(trace) = 6
    /\ NoFailureBefore(6)
    /\ trace[2].kind = "applyRule"
    /\ trace[2].rule.valueType = "append_unique_link"
    /\ trace[2].read = Link(PathA)
    /\ trace[2].wrote = Arr(<<Link(PathA)>>)
    /\ trace[3].kind = "processed"
    /\ trace[5].kind = "applyRule"
    /\ trace[5].wrote = Arr(<<Link(PathA)>>)
    /\ trace[6].kind = "processed"
    /\ trace[6].metadata[PathX][Refs] = Arr(<<Link(PathA)>>)

-----------------------------------------------------------------------------
(* Specification of concurrent passes: the debounce timers of two source    *)
(* documents that link to the same target fire, and the rule applications   *)
(* of their passes interleave. Each application is one call of the host's   *)
(* metadata accessor, which reads, changes and writes the block in one step.*)

\* rules that write one field of the target from every document of D
ConcurrentRuleSets ==
    LET glob == <<"D","/","*">>
    IN { << ProcessRule(1, glob, Undef, LastWatched, "date", 1, TRUE),
            ProcessRule(2, glob, Undef, Refs, "append_unique_link", 2, TRUE) >>,
         << ProcessRule(1, glob, Undef, Refs, "append_link", 1, TRUE) >>,
         << ProcessRule(1, glob, Undef, LastWatched, "date", 2, TRUE),
            ProcessRule(2, glob, Undef, Refs, "append_link", 1, TRUE) >> }

\* what the target holds before the passes: nothing, or a date between those
\* of the two sources and the link of D/a as a scalar
ConcurrentTargets ==
    { [k \in Keys |-> Undef],
      [k \in Keys |-> IF k = LastWatched THEN Str(Date0401)
                      ELSE IF k = Refs THEN Link(PathA) ELSE Undef] }

InitConcurrent ==
    /\ rules \in ConcurrentRuleSets
    /\ sourceFile = File(PathA, TRUE, Undef, <<>>, Str(Date0310), Str(<<"T">>))
    /\ targetFile = TheTarget
    /\ applicable = <<>>
    /\ called = FALSE
    /\ frontMatter = [k \in Keys |-> Undef]
    /\ options = [DefaultOptions EXCEPT !.preserveHistory = FALSE]
    /\ lastOp = NoOp
    /\ clock = 0
    /\ InitScheduler
    /\ vault =
          (PathA :> Document(File(PathA, TRUE, Undef, <<>>, Str(Date0310), Str(<<"T">>)),
                             0, <<PathX>>, <<>>))
          @@ (PathC :> Document(File(PathC, TRUE, Undef, <<>>, Str(Date0501), Undef),
                                0, <<PathX>>, <<>>))
          @@ (PathX :> Document(TheTarget, 0, <<>>, <<>>))
    /\ \E fm \in ConcurrentTargets : metadata = (PathX :> fm)
    /\ runs = {}
    /\ bulk = NoBulk
    /\ trace = <<>>
    /\ fileContentCache = <<>>

\* the document has not been edited yet: nothing scheduled for it, no pass
\* of it started
Unedited(path) ==
    /\ processingQueue[path] = NoTimer
    /\ \A i \in 1..Len(trace) :
          trace[i].kind = "processFile" => trace[i].file # path

\* each of the two documents is edited once
NextConcurrent ==
    \/ \E path \in SchedulePaths : (Unedited(path) /\ ScheduleProcessing(path))
    \/ \E timer \in timers : TimerFiresPass(timer)
    \/ \E pass \in runs : ProcessFileLink(pass)
    \/ \E pass \in runs : \E fails \in BOOLEAN : ApplyNextRule(pass, fails)
    \/ \E pass \in runs : PassReturns(pass)

SpecConcurrent == InitConcurrent /\ [][NextConcurrent]_vars

-----------------------------------------------------------------------------
(* Claims about concurrent passes *)

\* a rule of this value type has been applied to the field of the target for
\* the source, and the accessor did not fail
HasApplied(source, target, field, types) ==
    \E i \in 1..Len(trace) :
       /\ trace[i].kind = "applyRule"
       /\ ~trace[i].failed
       /\ trace[i].source = source
       /\ trace[i].target = target
       /\ trace[i].rule.updateField = field
       /\ trace[i].rule.valueType \in types

\* the first application of a rule to the field of the target was made for
\* this source
AppliedFirst(source, target, field) ==
    \E i \in 1..Len(trace) :
       /\ trace[i].kind = "applyRule"
       /\ trace[i].source = source
       /\ trace[i].target = target
       /\ trace[i].rule.updateField = field
       /\ \A j \in 1..(i - 1) :
             trace[j].kind = "applyRule" => trace[j].rule.updateField # field

C37_NoLostUpdate ==
    (/\ HasApplied(PathA, PathX, Refs, {"append_link"})
     /\ HasApplied(PathC, PathX, Refs, {"append_link"}))
       => /\ CountIn(metadata[PathX][Refs], Link(PathA)) >= 1
          /\ CountIn(metadata[PathX][Refs], Link(PathC)) >= 1

\* the passes of D/a and D/c were in flight together, each applied its
\* append_link rule, and refs holds both links
C37_Witness ==
    /\ Quiet
    /\ \E i \in 1..Len(trace) :
          /\ trace[i].kind = "processFile"
          /\ trace[i + 1].kind = "processFile"
          /\ trace[i + 1].file # trace[i].file
    /\ HasApplied(PathA, PathX, Refs, {"append_link"})
    /\ HasApplied(PathC, PathX, Refs, {"append_link"})
    /\ metadata[PathX][Refs] = Arr(<<Link(PathC), Link(PathA)>>)

-----------------------------------------------------------------------------
(* The delete handler of the plugin, and the specification of editing with  *)
(* deletion: source documents are edited and deleted while their debounce   *)
(* timers are armed.                                                        *)

\* the document is deleted from the vault and the delete event is handled by
\* handleFileDelete: the cache entry of the path is dropped. The event keeps
\* the number of the last timer armed before it.
HandleFileDelete(path) ==
    /\ path \in DOMAIN vault
    /\ vault' = [p \in DOMAIN vault \ {path} |-> vault[p]]
    /\ fileContentCache' =
          [p \in DOMAIN fileContentCache \ {path} |-> fileContentCache[p]]
    /\ trace' = Append(trace, [kind |-> "handleFileDelete", path |-> path,
                               armedBefore |-> timerCount])
    /\ UNCHANGED <<rules, sourceFile, targetFile, applicable, called, frontMatter,
                   options, lastOp, clock, metadata, runs, bulk>>
    /\ UNCHANGED schedulerVars

\* no pass of the document is in flight
NotInFlight(path) == \A pass \in runs : pass.source # path

NextDelete ==
    \/ \E path \in SchedulePaths \cap DOMAIN vault : \E saved \in Saves(path) :
          HandleFileModify(path, saved)
    \/ \E path \in SchedulePaths : (NotInFlight(path) /\ HandleFileDelete(path))
    \/ \E timer \in timers : TimerFiresPass(timer)
    \/ \E pass \in runs : ProcessFileLink(pass)
    \/ \E pass \in runs : \E fails \in BOOLEAN : ApplyNextRule(pass, fails)
    \/ \E pass \in runs : PassReturns(pass)

SpecDelete == InitEdit /\ [][NextDelete]_vars

\* C39: after a document is deleted (delete event handled), no processing
\* pass for that document is started by a debounce timer that was armed
\* before the deletion.
C39_NoPassAfterDelete ==
    \A i \in 1..Len(trace) : \A j \in (i + 1)..Len(trace) :
       (/\ trace[i].kind = "handleFileDelete"
        /\ trace[j].kind = "processFile"
        /\ trace[j].file = trace[i].path)
          => trace[j].id > trace[i].armedBefore

\* the case of C39 as the code handles it: D/a was edited, then deleted with
\* its timer armed, and the timer fired and started the pass of D/a
C39_PassStartedAfterDelete ==
    /\ Len(trace) = 3
    /\ trace[1].kind = "handleFileModify" /\ trace[1].path = PathA
    /\ trace[1].decision = "schedule"
    /\ trace[2].kind = "handleFileDelete" /\ trace[2].path = PathA
    /\ trace[3].kind = "processFile" /\ trace[3].file = PathA
    /\ PathA \notin DOMAIN vault

-----------------------------------------------------------------------------
(* Specification of the modify handler alone: documents of three kinds are  *)
(* saved, a markdown document the rule matches, a text file the rule        *)
(* matches and a markdown document it does not match.                       *)

\* the documents whose modify events are handled
ModifyPaths == {PathA, PathC, PathX}

\* one rule from the documents of D, enabled or not
ModifyRuleSets ==
    { << ProcessRule(1, <<"D","/","*">>, Undef, Refs, "append_unique_link", 1, enabled) >> :
         enabled \in BOOLEAN }

InitModify ==
    /\ rules \in ModifyRuleSets
    /\ sourceFile = File(PathA, TRUE, Undef, <<>>, Str(Date0310), Str(<<"T">>))
    /\ targetFile = TheTarget
    /\ applicable = <<>>
    /\ called = FALSE
    /\ frontMatter = [k \in Keys |-> Undef]
    /\ options = DefaultOptions
    /\ lastOp = NoOp
    /\ clock = 0
    /\ InitScheduler
    /\ vault =
          (PathA :> Document(File(PathA, TRUE, Undef, <<>>, Str(Date0310), Str(<<"T">>)),
                             0, <<>>, <<>>))
          @@ (PathC :> Document(File(PathC, TRUE, Undef, <<>>, Str(Date0501), Undef)
                                   @@ [extension |-> <<"t","x","t">>],
                                0, <<>>, <<>>))
          @@ (PathX :> Document(TheTarget, 0, <<>>, <<>>))
          @@ (PathY :> Document(File(PathY, TRUE, Str(<<"#","m">>), <<>>, Undef, Undef),
                                0, <<>>, <<>>))
    /\ metadata = [path \in {PathX, PathY} |-> [k \in Keys |-> Undef]]
    /\ runs = {}
    /\ bulk = NoBulk
    /\ trace = <<>>
    /\ fileContentCache = <<>>

NextModify ==
    \E path \in ModifyPaths : \E saved \in Saves(path) : HandleFileModify(path, saved)

SpecModify == InitModify /\ [][NextModify]_vars

-----------------------------------------------------------------------------
(* Claims about the modify handler *)

\* the step arms a timer for the path
Schedules(path) ==
    /\ timerCount' = timerCount + 1
    /\ Timer(timerCount', path) \in timers'

\* the documents the body links of the saved document resolve to, each once
ResolvedLinks(document) ==
    Unique(SelectSeq(document.links, LAMBDA link : link \in DOMAIN vault))

\* C40: a modify event schedules debounced processing only for a markdown
\* document that matches the source pattern of at least one enabled rule,
\* and never when the document's content equals the content cached at its
\* previous handled modify event; whenever processing is scheduled the cache
\* entry for the path holds the current content and link set.
C40_SchedulesOnlyChangedSources ==
    [][\A path \in ModifyPaths :
          Schedules(path)
             => /\ extension(vault'[path].file) = <<"m","d">>
                /\ \E i \in 1..Len(rules) :
                      rules[i].enabled /\ matchesSourcePattern(rules[i], vault'[path].file)
                /\ path \in DOMAIN fileContentCache
                      => fileContentCache[path].content # vault'[path].content
                /\ path \in DOMAIN fileContentCache'
                /\ fileContentCache'[path] =
                      [content |-> vault'[path].content,
                       links |-> ResolvedLinks(vault'[path])]]_vars

\* D/a was saved with a link and scheduled, saved again unchanged and
\* skipped, the text file and the unmatched document were not scheduled, and
\* the cache holds what D/a was scheduled with
C40_Witness ==
    /\ Len(trace) = 2
    /\ trace[1].kind = "handleFileModify"
    /\ trace[1].path = PathA
    /\ trace[1].decision = "schedule"
    /\ trace[2].path = PathA
    /\ trace[2].decision = "skip"
    /\ timers = {Timer(1, PathA)}
    /\ fileContentCache[PathA] = [content |-> 1, links |-> <<PathX>>]

-----------------------------------------------------------------------------
(* The plugin hears its own writes: a metadata write changes the text of    *)
(* the target document, the host raises a modify event for it, and          *)
(* handleFileModify handles that event like any other. The text of a        *)
(* document is its body and its metadata block; the handle of a timer is    *)
(* any number no live timer holds.                                          *)

\* the text vault.read returns: the body (a number for each body the document
\* has had) and the metadata block
Text(body, block) == <<body, block>>

\* the handle setTimeout returns: one that no armed timer of armed, no pass
\* in flight and no entry of processingQueue for another document holds
freshHandle(armed, path) ==
    LET live == {t.id : t \in armed \cup passes}
                   \cup {processingQueue[p] : p \in DOMAIN processingQueue \ {path}}
    IN CHOOSE h \in 1..(Cardinality(live) + 1) :
          /\ h \notin live
          /\ \A g \in 1..(h - 1) : g \in live

\* scheduleProcessing(file, rules, options) with such a handle
scheduleProcessingAgain(path) ==
    LET cleared == IF processingQueue[path] # NoTimer
                   THEN clearTimeout(timers, processingQueue[path])
                   ELSE timers
        timeout == freshHandle(cleared, path)
    IN /\ timers' = cleared \cup {Timer(timeout, path)}
       /\ processingQueue' = [processingQueue EXCEPT ![path] = timeout]
       /\ UNCHANGED timerCount

\* the host fires an armed timer, as TimerFiresPass, once the pass before it
\* has returned: the debounce lasts a second, a pass a few awaited calls
TimerFiresAgain(timer) ==
    /\ runs = {}
    /\ timerFiresPass(timer)
    /\ UNCHANGED <<rules, sourceFile, targetFile, applicable, called, frontMatter,
                   options, lastOp, clock, processingQueue, timerCount, vault,
                   metadata, bulk, trace, fileContentCache>>

\* applyRule for the next rule of the link the pass is at, as ApplyNextRule,
\* followed by what the write sets off: if the metadata block changed, the
\* text of the target is another and handleFileModify(targetFile) runs
ApplyNextRuleAndNotify(pass, fails) ==
    /\ pass \in runs
    /\ pass.queue # <<>>
    /\ LET rule == Head(pass.queue)
           field == rule.updateField
           target == pass.target
           fm == metadata[target]
           context == ProcessingContext(vault[pass.source].file,
                                        vault[target].file, rule)
       IN \E updateValue \in {generateUpdateValue(context)} :
          \E merged \in {updateTargetFileMetadata(fm, field, updateValue, context,
                                                  options, clock)} :
          LET written == updateValue # Null /\ ~fails
              changed == written /\ merged # fm
              documents == IF changed
                           THEN [vault EXCEPT ![target].content = Text(@[1], merged)]
                           ELSE vault
              currentContent == documents[target].content
              currentLinks == extractFileLinks(documents, target)
              cached == cachedEntry(fileContentCache, target)
          IN \E decision \in {IF changed /\ shouldProcessFile(documents[target].file, rules)
                              THEN modifyDecision(cached, currentContent, currentLinks)
                              ELSE "skip"} :
             /\ metadata' = IF written THEN [metadata EXCEPT ![target] = merged]
                                       ELSE metadata
             /\ runs' = (runs \ {pass})
                           \cup {afterApplyRule(pass, updateValue # Null /\ fails)}
             /\ vault' = documents
             /\ fileContentCache' =
                   IF decision = "skip" THEN fileContentCache
                   ELSE (target :> [content |-> currentContent, links |-> currentLinks])
                        @@ fileContentCache
             /\ IF decision = "schedule"
                THEN scheduleProcessingAgain(target) /\ UNCHANGED passes
                ELSE UNCHANGED schedulerVars
    /\ UNCHANGED <<rules, sourceFile, targetFile, applicable, called, frontMatter,
                   options, lastOp, clock, bulk, trace>>

-----------------------------------------------------------------------------
(* Specification of one edit and what follows it: three documents of D link *)
(* to one another, one of them is edited once, and the passes and the       *)
(* modify events of the plugin's own writes run their course. The history   *)
(* is inactive.                                                             *)

PathE == <<"D","/","e">>

LoopPaths == {PathA, PathC, PathE}

\* one rule from the documents of D to every document they link to
LoopRuleSets ==
    LET glob == <<"D","/","*">>
    IN { << ProcessRule(1, glob, Undef, Refs, "replace_link", 1, TRUE) >>,
         << ProcessRule(1, glob, Undef, Refs, "append_unique_link", 1, TRUE) >>,
         << ProcessRule(1, glob, Undef, LastWatched, "date", 1, TRUE) >> }

\* a document of D with links to the two others, its text not yet edited
LoopDocument(path, date, links) ==
    Document(File(path, TRUE, Undef, <<>>, Str(date), Undef),
             Text(0, [k \in Keys |-> Undef]), links, <<>>)

InitLoop ==
    /\ rules \in LoopRuleSets
    /\ sourceFile = File(PathA, TRUE, Undef, <<>>, Str(Date0310), Str(<<"T">>))
    /\ targetFile = TheTarget
    /\ applicable = <<>>
    /\ called = FALSE
    /\ frontMatter = [k \in Keys |-> Undef]
    /\ options = [DefaultOptions EXCEPT !.preserveHistory = FALSE]
    /\ lastOp = NoOp
    /\ clock = 0
    /\ processingQueue = [path \in LoopPaths |-> NoTimer]
    /\ timers = {}
    /\ passes = {}
    /\ timerCount = 0
    /\ vault = (PathA :> LoopDocument(PathA, Date0310, <<PathC, PathE>>))
               @@ (PathC :> LoopDocument(PathC, Date0401, <<PathA, PathE>>))
               @@ (PathE :> LoopDocument(PathE, Date0501, <<PathA, PathC>>))
    /\ metadata = [path \in LoopPaths |-> [k \in Keys |-> Undef]]
    /\ runs = {}
    /\ bulk = NoBulk
    /\ trace = <<>>
    /\ fileContentCache = <<>>

\* the one edit of the user: a document is saved with another body
UserEdit(path) ==
    /\ trace = <<>>
    /\ HandleFileModify(path, [vault[path] EXCEPT !.content = Text(@[1] + 1, @[2])])

NextLoop ==
    \/ \E path \in LoopPaths : UserEdit(path)
    \/ \E timer \in timers : TimerFiresAgain(timer)
    \/ \E pass \in runs : ProcessFileLink(pass)
    \/ \E pass \in runs : \E fails \in BOOLEAN : ApplyNextRuleAndNotify(pass, fails)
    \/ \E pass \in runs : PassReturns(pass)

SpecLoop == InitLoop /\ [][NextLoop]_vars

\* The host fires the timer that stays armed for a document, the metadata
\* accessor a pass awaits settles, and an awaited call that has settled is
\* resumed.
FairLoop ==
    /\ \A path \in LoopPaths :
          SF_vars(\E timer \in timers : timer.path = path /\ TimerFiresAgain(timer))
    /\ WF_vars(\E pass \in runs : ProcessFileLink(pass))
    /\ WF_vars(\E pass \in runs : \E fails \in BOOLEAN :
                  ApplyNextRuleAndNotify(pass, fails))
    /\ WF_vars(\E pass \in runs : PassReturns(pass))

SpecLoopFair == SpecLoop /\ FairLoop

-----------------------------------------------------------------------------
(* Claims about what follows one edit *)

\* C35: after a single user edit and no further user edits, the system
\* eventually quiesces: the metadata writes made by the plugin itself, which
\* raise modify events on the target documents, trigger only finitely many
\* further passes, after which no timer is pending and no metadata changes
\* any more.
C35_EventuallyQuiet == <>[]Quiet

\* a document of such a run has one armed timer at most, so that the timer
\* the host is bound to fire for a document is that one
OneTimerEach == \A t1, t2 \in timers : t1.path = t2.path => t1 = t2

\* no rule of the run is a replace_link rule
NoReplaceRule == \A i \in 1..Len(rules) : rules[i].valueType # "replace_link"

\* the part of C35 the code keeps in this vault: with a date rule or an
\* append_unique_link rule the edit is followed by finitely many passes
C35_OtherRulesQuiesce == NoReplaceRule => <>[]Quiet

\* the case of C35 as the code handles it: refs of D/e, written by the pass
\* of D/a and overwritten by the pass of D/c, is being written by a pass of
\* D/a again while a timer of D/e is armed
C35_WrittenAgain ==
    /\ metadata[PathE][Refs] = Link(PathC)
    /\ \E pass \in runs :
          /\ pass.source = PathA
          /\ pass.target = PathE
          /\ pass.queue # <<>>
    /\ \E timer \in timers : timer.path = PathE
====
